---- MODULE Spec2Model ----
(***************************************************************************)
(* A model of the react-native-onyx prototypes: the key-based store        *)
(* (Onyx + ConnectionManager + Cache), the store-based store (Onyx +       *)
(* OnyxStore + Cache + collection-grouped Storage), the first store-based  *)
(* Onyx (global state object) and the cache implementations.                *)
(*                                                                         *)
(* Asynchrony.  Every suspension point of an async function (an await, a   *)
(* .then) splits the function into steps.  The part of a function that     *)
(* runs before its first await runs inside the calling action; every       *)
(* continuation is a record in a bag of pending tasks and runs as its own  *)
(* action.  An operation of the storage provider (an external              *)
(* collaborator) takes effect when it completes, and pending operations    *)
(* complete in any order.                                                  *)
(***************************************************************************)
EXTENDS Integers, Sequences, FiniteSets, Bags, TLC

(***************************************************************************)
(* The state.  Each program has its own variables; a step of one program   *)
(* leaves the variables of the others unchanged.                           *)
(*   caches, chist : the three caches and the history of the calls         *)
(*   kb, kbg       : the key-based prototype and what its callers saw      *)
(*   cm, cmg       : the ConnectionManager with Onyx's subscribers, driven *)
(*                   on its own, and what its callers saw                  *)
(*   mg            : the merge functions applied to one target and source  *)
(*   ku            : the key utilities applied to one key and one hint     *)
(*   px            : the proxy-based prototype's reactive state            *)
(*   ob            : the observer-based prototype and what its callers saw *)
(*   s1, s1g       : the store-based prototype over the OnyxStore module,  *)
(*                   and what its callers saw                              *)
(*   sb, sbg       : the store-based prototype over the OnyxStore class,   *)
(*                   and what its callers saw                              *)
(***************************************************************************)
VARIABLES caches, chist, kb, kbg, cm, cmg, mg, s1, s1g, sb, sbg, ku, px, ob

cacheVars == <<caches, chist>>

kbVars == <<kb, kbg>>

cmVars == <<cm, cmg>>

mgVars == <<mg>>

s1Vars == <<s1, s1g>>

sbVars == <<sb, sbg>>

kuVars == <<ku>>

pxVars == <<px>>

obVars == <<ob>>

vars == <<caches, chist, kb, kbg, cm, cmg, mg, s1, s1g, sb, sbg, ku, px, ob>>

CacheIdle == caches = <<>> /\ chist = <<>>

KbIdle == kb = <<>> /\ kbg = <<>>

CmIdle == cm = <<>> /\ cmg = <<>>

MgIdle == mg = <<>>

S1Idle == s1 = <<>> /\ s1g = <<>>

SbIdle == sb = <<>> /\ sbg = <<>>

KuIdle == ku = <<>>

PxIdle == px = <<>>

ObIdle == ob = <<>>

OnlyCache == UNCHANGED <<kbVars, cmVars, mgVars, s1Vars, sbVars, kuVars, pxVars, obVars>>

OnlyKb == UNCHANGED <<cacheVars, cmVars, mgVars, s1Vars, sbVars, kuVars, pxVars, obVars>>

OnlyCm == UNCHANGED <<cacheVars, kbVars, mgVars, s1Vars, sbVars, kuVars, pxVars, obVars>>

OnlyMg == UNCHANGED <<cacheVars, kbVars, cmVars, s1Vars, sbVars, kuVars, pxVars, obVars>>

OnlyS1 == UNCHANGED <<cacheVars, kbVars, cmVars, mgVars, sbVars, kuVars, pxVars, obVars>>

OnlySb == UNCHANGED <<cacheVars, kbVars, cmVars, mgVars, s1Vars, kuVars, pxVars, obVars>>

OnlyOb == UNCHANGED <<cacheVars, kbVars, cmVars, mgVars, s1Vars, sbVars, kuVars, pxVars>>

OnlyPx == UNCHANGED <<cacheVars, kbVars, cmVars, mgVars, s1Vars, sbVars, kuVars, obVars>>

OnlyKu == UNCHANGED <<cacheVars, kbVars, cmVars, mgVars, s1Vars, sbVars, pxVars, obVars>>

(***************************************************************************)
(* Keys are strings, modelled as sequences of characters so that endsWith, *)
(* startsWith and the collection regular expression are computed.          *)
(***************************************************************************)
KeyS == <<"s">>
KeyT == <<"t">>
KeyR == <<"r", "_">>
KeyR1 == <<"r", "_", "1">>
KeyR2 == <<"r", "_", "2">>
NoKey == <<>>

StartsWith(k, p) ==
    /\ Len(p) <= Len(k)
    /\ SubSeq(k, 1, Len(p)) = p

isCollectionKey(k) ==
    /\ Len(k) > 0
    /\ k[Len(k)] = "_"

isCollectionMemberKey(k, c) ==
    /\ StartsWith(k, c)
    /\ k # c

\* key.match(/^(.+_)/): the longest prefix ending in "_" that has at least
\* one character before the "_"; NoKey when there is no match.
getCollectionKey(k) ==
    LET ends == {i \in 2..Len(k) : k[i] = "_"}
    IN  IF ends = {} THEN NoKey
        ELSE SubSeq(k, 1, CHOOSE i \in ends : \A j \in ends : j <= i)

(***************************************************************************)
(* Values.  null, undefined (a Map miss), primitives and plain objects.    *)
(* An object is a set of <<field, number>> pairs with distinct fields.     *)
(***************************************************************************)
NULL == [k |-> "null", o |-> {}]
UNDEF == [k |-> "undef", o |-> {}]
NONE == [k |-> "none", o |-> {}]
Prim(n) == [k |-> "prim", o |-> {<<"#", n>>}]
Obj(S) == [k |-> "obj", o |-> S]
ObjA == Obj({<<"a", 1>>})
ObjB == Obj({<<"b", 1>>})
ObjAB == Obj({<<"a", 1>>, <<"b", 1>>})

\* {...current, ...changes}: the fields of changes win; spreading a
\* primitive or null adds nothing.
Spread(cur, chg) ==
    IF chg.k = "obj"
    THEN Obj(chg.o \cup {p \in cur.o : \A q \in chg.o : q[1] # p[1]})
    ELSE Obj(cur.o)

\* The merge rule shared by the prototypes' merge(): an object current
\* value is shallow-merged, anything else is replaced by the changes.
mergeValue(cur, chg) ==
    IF cur.k = "obj" THEN Spread(cur, chg) ELSE chg

\* A collection aggregate: a mapping from member key to member value.
Coll(S) == [k |-> "coll", o |-> S]

Remove(seq, x) == SelectSeq(seq, LAMBDA y : y # x)

SeqToSet(seq) == {seq[i] : i \in 1..Len(seq)}

Max(a, b) == IF a >= b THEN a ELSE b

Min(a, b) == IF a <= b THEN a ELSE b

AllKeys == {KeyS, KeyT, KeyR, KeyR1, KeyR2}

CollKeys == {k \in AllKeys : isCollectionKey(k)}

(***************************************************************************)
(* The key-based Cache (class Cache).  A cache is a record                 *)
(*   m    : the Map, a function from key to value, UNDEF when absent       *)
(*   ord  : accessOrder, least recently used first                         *)
(*   max  : maxSize                                                        *)
(*   coll : collectionCache, per collection key the cached aggregate       *)
(***************************************************************************)
DefaultMaxSize == 1000

NoCollEntry == [has |-> FALSE, keys |-> {}, value |-> {}]

NewCache ==
    [m |-> [k \in AllKeys |-> UNDEF],
     ord |-> <<>>,
     max |-> DefaultMaxSize,
     coll |-> [c \in CollKeys |-> NoCollEntry]]

CacheHas(c, k) == c.m[k] # UNDEF

CacheKeys(c) == {k \in AllKeys : CacheHas(c, k)}

CacheSize(c) == Cardinality(CacheKeys(c))

\* evictIfNeeded: drops the first (size - maxSize) keys of accessOrder.
EvictCount(c) ==
    IF c.max <= 0 \/ CacheSize(c) <= c.max THEN 0 ELSE CacheSize(c) - c.max

Evicted(c) == {c.ord[i] : i \in 1..Min(EvictCount(c), Len(c.ord))}

EvictNewest(c) ==
    LET n == EvictCount(c)
        gone == {c.ord[i] : i \in (Len(c.ord) - n + 1)..Len(c.ord)}
    IN  [c EXCEPT !.m = [k \in AllKeys |-> IF k \in gone THEN UNDEF ELSE c.m[k]],
                  !.ord = SelectSeq(c.ord, LAMBDA k : k \notin gone)]

evictIfNeeded(c) ==
    LET gone == Evicted(c)
    IN  [c EXCEPT !.m = [k \in AllKeys |-> IF k \in gone THEN UNDEF ELSE c.m[k]],
                  !.ord = SelectSeq(c.ord, LAMBDA k : k \notin gone)]

invalidateCollectionCache(c, k) ==
    LET ck == getCollectionKey(k)
    IN  IF ck \in CollKeys THEN [c EXCEPT !.coll[ck] = NoCollEntry] ELSE c

Touch(c, k) == [c EXCEPT !.ord = Append(Remove(c.ord, k), k)]

\* Cache.get: the value (UNDEF on a miss) and the cache with its recency
\* updated on a hit.
CacheGetValue(c, k) == c.m[k]

CacheGetTouch(c, k) == IF CacheHas(c, k) THEN Touch(c, k) ELSE c

CacheSet(c, k, v) ==
    evictIfNeeded(invalidateCollectionCache([Touch(c, k) EXCEPT !.m[k] = v], k))

CacheDelete(c, k) ==
    invalidateCollectionCache([c EXCEPT !.m[k] = UNDEF, !.ord = Remove(c.ord, k)], k)

CacheClear(c) ==
    [c EXCEPT !.m = [k \in AllKeys |-> UNDEF],
              !.ord = <<>>,
              !.coll = [ck \in CollKeys |-> NoCollEntry]]

CacheSetMaxSize(c, n) == evictIfNeeded([c EXCEPT !.max = n])

\* Cache.getCollection: the members that are present and not null.
CollectionMembers(c, ck) ==
    {k \in CacheKeys(c) : isCollectionMemberKey(k, ck) /\ c.m[k] # NULL}

CollectionCacheHit(c, ck) ==
    /\ c.coll[ck].has
    /\ c.coll[ck].keys = CollectionMembers(c, ck)
    /\ \A k \in CollectionMembers(c, ck) : <<k, c.m[k]>> \in c.coll[ck].value

CollectionBuilt(c, ck) == {<<k, c.m[k]>> : k \in CollectionMembers(c, ck)}

\* The value getCollection returns: UNDEF for a key that is no collection
\* key and for a collection without members.
CacheGetCollection(c, ck) ==
    IF ~isCollectionKey(ck) THEN UNDEF
    ELSE IF CollectionCacheHit(c, ck) THEN Coll(c.coll[ck].value)
    ELSE IF CollectionMembers(c, ck) # {} THEN Coll(CollectionBuilt(c, ck))
    ELSE UNDEF

\* The cache after getCollection: a rebuilt aggregate is cached.
CacheAfterGetCollection(c, ck) ==
    IF isCollectionKey(ck) /\ ~CollectionCacheHit(c, ck) /\ CollectionMembers(c, ck) # {}
    THEN [c EXCEPT !.coll[ck] = [has |-> TRUE,
                                 keys |-> CollectionMembers(c, ck),
                                 value |-> CollectionBuilt(c, ck)]]
    ELSE c

(***************************************************************************)
(* The store-based prototype's first Cache: a Map of entries stamped with  *)
(* Date.now().  A cache is a record                                        *)
(*   ents : the Map in iteration (insertion) order, entries                *)
(*          [key, value, at]                                               *)
(*   max  : maxSize                                                        *)
(***************************************************************************)
NewTsCache == [ents |-> <<>>, max |-> DefaultMaxSize]

TsIndex(c, k) ==
    IF \E i \in 1..Len(c.ents) : c.ents[i].key = k
    THEN CHOOSE i \in 1..Len(c.ents) : c.ents[i].key = k
    ELSE 0

TsKeys(c) == {c.ents[i].key : i \in 1..Len(c.ents)}

TsSize(c) == Len(c.ents)

\* The forEach scan of evictIfNeeded: the first entry, in Map order, whose
\* lastAccessed is strictly below every earlier one and not above any.
TsOldest(c) ==
    CHOOSE i \in 1..Len(c.ents) :
        /\ \A j \in 1..Len(c.ents) : c.ents[j].at >= c.ents[i].at
        /\ \A j \in 1..(i - 1) : c.ents[j].at > c.ents[i].at

TsDropAt(c, i) ==
    [c EXCEPT !.ents = SubSeq(c.ents, 1, i - 1) \o SubSeq(c.ents, i + 1, Len(c.ents))]

\* evictIfNeeded removes one entry, the oldest, when the Map is over
\* maxSize (a key that is the empty string is kept: if (oldestKey)).
TsEvictIfNeeded(c) ==
    IF TsSize(c) <= c.max THEN c
    ELSE IF Len(c.ents[TsOldest(c)].key) > 0 THEN TsDropAt(c, TsOldest(c))
    ELSE c

TsSetMaxSize(c, n) == TsEvictIfNeeded([c EXCEPT !.max = n])

TsGetValue(c, k) == IF TsIndex(c, k) = 0 THEN UNDEF ELSE c.ents[TsIndex(c, k)].value

TsGetTouch(c, k, now) ==
    IF TsIndex(c, k) = 0 THEN c ELSE [c EXCEPT !.ents[TsIndex(c, k)].at = now]

TsSet(c, k, v, now) ==
    TsEvictIfNeeded(
        IF TsIndex(c, k) = 0
        THEN [c EXCEPT !.ents = Append(c.ents, [key |-> k, value |-> v, at |-> now])]
        ELSE [c EXCEPT !.ents[TsIndex(c, k)] = [key |-> k, value |-> v, at |-> now]])

TsDelete(c, k) == IF TsIndex(c, k) = 0 THEN c ELSE TsDropAt(c, TsIndex(c, k))

TsClear(c) == [c EXCEPT !.ents = <<>>]

(***************************************************************************)
(* The library's OnyxCache.  A cache is a record                           *)
(*   storageKeys : the keys known to be in storage                         *)
(*   nullish     : nullishStorageKeys                                      *)
(*   recent      : recentKeys, least recently accessed first               *)
(*   map         : storageMap, UNDEF when the key has no property          *)
(*   limit       : maxRecentKeysSize                                       *)
(***************************************************************************)
NewOnyxCache ==
    [storageKeys |-> {},
     nullish |-> {},
     recent |-> <<>>,
     map |-> [k \in AllKeys |-> UNDEF],
     limit |-> 0]

OcResident(c) == {k \in AllKeys : c.map[k] # UNDEF}

addToAccessedKeys(c, k) == [c EXCEPT !.recent = Append(Remove(c.recent, k), k)]

OcHasCacheForKey(c, k) == c.map[k] # UNDEF \/ k \in c.nullish

OcAddNullishStorageKey(c, k) == [c EXCEPT !.nullish = c.nullish \cup {k}]

OcGetValue(c, k) == c.map[k]

OcGetTouch(c, k) == addToAccessedKeys(c, k)

OcSet(c, k, v) ==
    LET c1 == addToAccessedKeys([c EXCEPT !.storageKeys = c.storageKeys \cup {k}], k)
    IN  [c1 EXCEPT !.nullish = c1.nullish \ {k},
                   !.map[k] = IF v = NULL \/ v = UNDEF THEN UNDEF ELSE v]

OcDrop(c, k) ==
    [c EXCEPT !.map[k] = UNDEF,
              !.storageKeys = c.storageKeys \ {k},
              !.recent = Remove(c.recent, k)]

removeLeastRecentlyUsedKeys(c) ==
    LET n == Len(c.recent) - c.limit
        gone == IF n <= 0 THEN {} ELSE {c.recent[i] : i \in 1..n}
    IN  [c EXCEPT !.map = [k \in AllKeys |-> IF k \in gone THEN UNDEF ELSE c.map[k]],
                  !.recent = SelectSeq(c.recent, LAMBDA k : k \notin gone)]

setRecentKeysLimit(c, n) == [c EXCEPT !.limit = n]

(***************************************************************************)
(* SpecCache: one of the three caches, chosen at the start, driven by a    *)
(* sequence of calls.                                                      *)
(*   caches : [impl, kb, ts, oc, now]  which cache is driven ("kb": the    *)
(*            key-based Cache, "ts": the timestamp Cache, "oc": the        *)
(*            OnyxCache), the three caches and the value of Date.now()     *)
(*   chist  : [ins, pure, cap, last, n, read, dirty, stable, hit]          *)
(*            history of the calls: the keys                               *)
(*            inserted so far (kept while pure), whether the run so far    *)
(*            is one capacity setting followed by inserts of distinct keys *)
(*            (and eviction passes) only, the capacity set, the last call, *)
(*            and the number of calls                                      *)
(***************************************************************************)
MaxCacheOps == 5
MaxCap == 2
MaxClock == 1

CacheOpKeys == {KeyS, KeyT, KeyR1, KeyR2}
CacheOpValues == {NULL, Prim(1)}
CacheImpls == {"kb", "ts", "oc"}
CacheOpCollection == KeyR

CacheInit ==
    /\ KbIdle /\ CmIdle /\ MgIdle /\ S1Idle /\ SbIdle /\ KuIdle /\ PxIdle /\ ObIdle
    /\ \E i \in CacheImpls :
        caches = [impl |-> i, kb |-> NewCache, ts |-> NewTsCache,
                  oc |-> NewOnyxCache, now |-> 0]
    /\ chist = [ins |-> <<>>, pure |-> TRUE, cap |-> 0, last |-> "new", n |-> 0,
                read |-> FALSE, dirty |-> FALSE, stable |-> FALSE, hit |-> FALSE,
                nullset |-> FALSE, known |-> FALSE]

Impure(op) ==
    [chist EXCEPT !.ins = <<>>, !.pure = FALSE, !.last = op, !.n = chist.n + 1,
                  !.nullset = FALSE, !.known = FALSE]

\* The history after a call that is no read of the aggregate: it notes
\* whether the call changed the members of the collection or the value of
\* one of them.
Tracked(h) ==
    [h EXCEPT !.dirty = @ \/ CollectionBuilt(caches'.kb, CacheOpCollection)
                                 # CollectionBuilt(caches.kb, CacheOpCollection),
              !.stable = FALSE, !.hit = FALSE, !.nullset = FALSE, !.known = FALSE]

\* The driven cache after a call: a, b and c are the results for the
\* key-based Cache, the timestamp Cache and the OnyxCache.
Drive(a, b, c) ==
    [caches EXCEPT !.kb = IF caches.impl = "kb" THEN a ELSE @,
                   !.ts = IF caches.impl = "ts" THEN b ELSE @,
                   !.oc = IF caches.impl = "oc" THEN c ELSE @]

\* setMaxSize(n) / setRecentKeysLimit(n)
CSetMaxSize(n) ==
    /\ chist.n < MaxCacheOps
    /\ OnlyCache
    /\ caches' = Drive(CacheSetMaxSize(caches.kb, n),
                       TsSetMaxSize(caches.ts, n),
                       setRecentKeysLimit(caches.oc, n))
    /\ chist' = Tracked(IF chist.pure /\ chist.last = "new"
                        THEN [chist EXCEPT !.cap = n, !.last = "cap", !.n = chist.n + 1]
                        ELSE [Impure("cap") EXCEPT !.cap = n])

\* set(key, value)
CSet(k, v) ==
    /\ chist.n < MaxCacheOps
    /\ OnlyCache
    /\ caches' = Drive(CacheSet(caches.kb, k, v),
                       TsSet(caches.ts, k, v, caches.now),
                       OcSet(caches.oc, k, v))
    /\ chist' = [Tracked(IF chist.pure /\ chist.cap > 0 /\ v # NULL
                                /\ k \notin SeqToSet(chist.ins)
                             THEN [chist EXCEPT !.ins = Append(chist.ins, k), !.last = "set",
                                                !.n = chist.n + 1]
                             ELSE Impure("set")) EXCEPT
                    !.nullset = v = NULL,
                    !.known = CASE caches.impl = "kb" ->
                                       /\ CacheHas(caches'.kb, k)
                                       /\ CacheGetValue(caches'.kb, k) = NULL
                                [] caches.impl = "ts" -> TsGetValue(caches'.ts, k) = NULL
                                [] OTHER -> OcHasCacheForKey(caches'.oc, k)]

\* get(key)
CGet(k) ==
    /\ chist.n < MaxCacheOps
    /\ OnlyCache
    /\ caches' = Drive(CacheGetTouch(caches.kb, k),
                       TsGetTouch(caches.ts, k, caches.now),
                       OcGetTouch(caches.oc, k))
    /\ chist' = Tracked(Impure("get"))

\* delete(key) / drop(key)
CDelete(k) ==
    /\ chist.n < MaxCacheOps
    /\ OnlyCache
    /\ caches' = Drive(CacheDelete(caches.kb, k),
                       TsDelete(caches.ts, k),
                       OcDrop(caches.oc, k))
    /\ chist' = Tracked(Impure("delete"))

\* removeLeastRecentlyUsedKeys(), the OnyxCache's eviction pass
CEvictPass ==
    /\ chist.n < MaxCacheOps
    /\ OnlyCache
    /\ caches.impl = "oc"
    /\ caches' = Drive(caches.kb, caches.ts, removeLeastRecentlyUsedKeys(caches.oc))
    /\ chist' = Tracked(IF chist.pure
                        THEN [chist EXCEPT !.last = "evict", !.n = chist.n + 1]
                        ELSE Impure("evict"))

\* clear() of the two prototype caches
CClear ==
    /\ chist.n < MaxCacheOps
    /\ OnlyCache
    /\ caches.impl # "oc"
    /\ caches' = Drive(CacheClear(caches.kb), TsClear(caches.ts), caches.oc)
    /\ chist' = Tracked(Impure("clear"))

\* getCollection(collectionKey) of the key-based Cache.  The history notes
\* whether the read before returned a mapping and nothing changed since
\* (stable), and whether this read returns the cached instance (hit).
CGetCollection ==
    /\ chist.n < MaxCacheOps
    /\ OnlyCache
    /\ caches.impl = "kb"
    /\ caches' = Drive(CacheAfterGetCollection(caches.kb, CacheOpCollection),
                       caches.ts, caches.oc)
    /\ chist' = [Impure("getCollection") EXCEPT
                    !.read = CacheGetCollection(caches.kb, CacheOpCollection) # UNDEF,
                    !.dirty = FALSE,
                    !.stable = chist.read /\ ~chist.dirty,
                    !.hit = CollectionCacheHit(caches.kb, CacheOpCollection)]

\* Date.now() advances between two calls
CTick ==
    /\ caches.impl = "ts"
    /\ OnlyCache
    /\ caches.now < MaxClock
    /\ caches' = [caches EXCEPT !.now = caches.now + 1]
    /\ UNCHANGED chist

CacheNext ==
    \/ \E n \in 1..MaxCap : CSetMaxSize(n)
    \/ \E k \in CacheOpKeys, v \in CacheOpValues : CSet(k, v)
    \/ \E k \in CacheOpKeys : CGet(k)
    \/ \E k \in CacheOpKeys : CDelete(k)
    \/ CEvictPass
    \/ CClear
    \/ CGetCollection
    \/ CTick

(***************************************************************************)
(* The key-based prototype: Onyx over Cache, ConnectionManager and a       *)
(* StorageProvider.                                                        *)
(*   kb  : [cache, store, conns, subs, unsub, sessionID,                   *)
(*          lastSubscriptionID,                                            *)
(*          lastCallbackID, tasks]                                         *)
(*         cache  the key-based Cache                                      *)
(*         store  the provider's contents, UNDEF for a key it lacks        *)
(*         conns  connectionsMap in insertion order                        *)
(*         subs   Onyx's subscribers in insertion order, each              *)
(*                [id, key, conn]: the subscription ID, the key and the    *)
(*                connection ID its internalCallback serves                *)
(*         unsub  whether the ConnectionManager has an unsubscription      *)
(*                handler                                                  *)
(*         tasks  what is pending: provider requests, which settle in any  *)
(*                order, and promise continuations, which run in the       *)
(*                order they were queued                                   *)
(*   kbg : what the callers have seen: per callback the payload it got     *)
(*         last, the effects of the last step, per key the value the       *)
(*         calls so far give when applied one after the other, the number  *)
(*         of calls, and the keys whose last provider read returned null   *)
(*         with no write of the key and no clear() since                   *)
(***************************************************************************)
MaxKbCalls == 3
MaxKbTasks == 3
MaxKbSubs == 2

KbKeys == {KeyS, KeyR1}
KbSetKeys == KbKeys \cup {KeyR}
KbConnectKeys == {KeyS, KeyR}
KbValues == {ObjA}
KbChanges == {ObjA, ObjB}
KbMaxSizes == {1, DefaultMaxSize}

EmptyStore == [k \in AllKeys |-> UNDEF]

\* The durable contents a start can find: nothing, or a value under "s".
KbStores == {EmptyStore, [EmptyStore EXCEPT ![KeyS] = ObjA]}

\* StorageProvider.getItem: null for a key the provider lacks.
StorageGetItem(store, k) == IF store[k] = UNDEF THEN NULL ELSE store[k]

\* StorageProvider.getAllKeys
StorageGetAllKeys(store) == {k \in AllKeys : store[k] # UNDEF}

\* A set as a sequence, in a fixed order.
RECURSIVE SetToSeq(_)
SetToSeq(S) ==
    IF S = {} THEN <<>>
    ELSE LET x == CHOOSE y \in S : TRUE IN <<x>> \o SetToSeq(S \ {x})

NoConn == [key |-> NoKey, wait |-> FALSE, session |-> 0, uniqueID |-> 0]

\* A pending task.  t is the request or continuation, cont the caller that
\* waits for a get ("app", "merge", "connect"), val the value carried,
\* arg the changes of a merge, cb the callback of a connect, conn the
\* connection of a replay, keys the cached keys a clear() collected.  old
\* is kept for the callers' record: for a fetch of connect the value the
\* key held when a clear() was called while the fetch was pending, for a
\* write its value when a subscriber of the key had got that value last
\* (NONE otherwise).
Task(t, key, val, cont, arg, cb) ==
    [t |-> t, key |-> key, val |-> val, cont |-> cont, arg |-> arg, cb |-> cb,
     conn |-> NoConn, keys |-> {}, old |-> NONE]

\* Continuations of promises that are already resolved.
IsMicro(task) == task.t \in {"cached", "collection", "replay"}

\* Task i may run now: a continuation waits for those queued before it.
Runnable(tasks, i) ==
    IsMicro(tasks[i]) => \A j \in 1..(i - 1) : ~IsMicro(tasks[j])

DropTask(tasks, i) == SubSeq(tasks, 1, i - 1) \o SubSeq(tasks, i + 1, Len(tasks))

\* generateConnectionID: key, waitForCollectionCallback, the session and,
\* for a collection key without waitForCollectionCallback, a fresh guid.
GenerateUniqueID(st, key, wait) ==
    [key |-> key, wait |-> wait, session |-> st.sessionID,
     uniqueID |-> st.lastCallbackID + 1]

generateConnectionID(st, key, wait) ==
    [key |-> key, wait |-> wait, session |-> st.sessionID,
     uniqueID |-> IF isCollectionKey(key) /\ ~wait THEN st.lastCallbackID + 1 ELSE 0]

ConnIndex(conns, id) ==
    IF \E i \in 1..Len(conns) : conns[i].id = id
    THEN CHOOSE i \in 1..Len(conns) : conns[i].id = id
    ELSE 0

\* getConnectionCount
getConnectionCount(st) == Len(st.conns)

\* fireCallbacks: every callback of the connection gets the cached value.
fireCallbacks(conn) == [j \in 1..Len(conn.cbs) |-> <<conn.cbs[j], conn.cval>>]

\* internalCallback(value, key) of connection i.
internalCallback(conns, i, v, key) ==
    [conns EXCEPT ![i].isConnectionMade = TRUE, ![i].cval = v, ![i].ckey = key]

RECURSIVE Flatten(_)
Flatten(seqs) == IF seqs = <<>> THEN <<>> ELSE Head(seqs) \o Flatten(Tail(seqs))

\* notifySubscribers(key, value): the subscribers of the key get the value,
\* then the subscribers of a collection the key belongs to get the
\* aggregate Cache.getCollection returns.  A subscriber is the
\* internalCallback of a connection ID: it does nothing when the
\* connectionsMap has no such connection, else it caches the payload and
\* fires the connection's callbacks.  The result is the state and the
\* payloads delivered, in order.
notifySubscribers(st, key, value) ==
    LET n == Len(st.conns)
        m == Len(st.subs)
        at(j) == ConnIndex(st.conns, st.subs[j].conn)
        exact(j) == st.subs[j].key = key /\ at(j) # 0
        member(j) == /\ isCollectionKey(st.subs[j].key)
                     /\ isCollectionMemberKey(key, st.subs[j].key)
                     /\ at(j) # 0
        asked == {st.subs[j].key :
                    j \in {x \in 1..m : /\ isCollectionKey(st.subs[x].key)
                                        /\ isCollectionMemberKey(key, st.subs[x].key)}}
        payload(i) == IF st.conns[i].key = key THEN value
                      ELSE CacheGetCollection(st.cache, st.conns[i].key)
        conns1 == [i \in 1..n |->
                     IF \E j \in 1..m : at(j) = i /\ (exact(j) \/ member(j))
                     THEN internalCallback(st.conns, i, payload(i), st.conns[i].key)[i]
                     ELSE st.conns[i]]
        cache1 == [st.cache EXCEPT !.coll = [ck \in CollKeys |->
                     IF ck \in asked
                     THEN CacheAfterGetCollection(st.cache, ck).coll[ck]
                     ELSE st.cache.coll[ck]]]
        first == Flatten([j \in 1..m |->
                            IF exact(j) THEN fireCallbacks(conns1[at(j)]) ELSE <<>>])
        then == Flatten([j \in 1..m |->
                            IF member(j) THEN fireCallbacks(conns1[at(j)]) ELSE <<>>])
    IN  [st |-> [st EXCEPT !.conns = conns1, !.cache = cache1], ds |-> first \o then]

\* notifySubscribers(key, null) for each key of a sequence, as clear() does.
RECURSIVE NotifyAll(_, _)
NotifyAll(st, keys) ==
    IF keys = <<>> THEN [st |-> st, ds |-> <<>>]
    ELSE LET r == notifySubscribers(st, Head(keys), NULL)
             rest == NotifyAll(r.st, Tail(keys))
         IN  [st |-> rest.st, ds |-> r.ds \o rest.ds]

\* The keys Cache.set(key, value) evicts.
CacheSetEvicts(c, k, v) ==
    Evicted(invalidateCollectionCache([Touch(c, k) EXCEPT !.m[k] = v], k))

\* get(key) up to its await: a hit resolves with the cached value, a miss
\* asks the provider.
OnyxGet(st, key, cont, arg, cb) ==
    LET cachedValue == CacheGetValue(st.cache, key)
    IN  [st EXCEPT
            !.cache = CacheGetTouch(st.cache, key),
            !.tasks = Append(@, IF cachedValue # UNDEF
                                THEN Task("cached", key, cachedValue, cont, arg, cb)
                                ELSE Task("getItem", key, NONE, cont, arg, cb))]

\* set(key, value) up to its await: the cache is updated and the provider
\* is asked to write.
OnyxSet(st, key, value) ==
    [st EXCEPT !.cache = CacheSet(st.cache, key, value),
               !.tasks = Append(@, Task("setItem", key, value, "set", NONE, 0))]

\* merge(key, changes) up to its await of get(key).
OnyxMerge(st, key, changes) == OnyxGet(st, key, "merge", changes, 0)

\* mergeCollection: merge(key, value) for each entry, in order.
RECURSIVE OnyxMergeCollection(_, _)
OnyxMergeCollection(st, entries) ==
    IF entries = <<>> THEN st
    ELSE OnyxMergeCollection(OnyxMerge(st, Head(entries)[1], Head(entries)[2]),
                             Tail(entries))

\* remove(key) up to its await.
OnyxRemove(st, key) ==
    [st EXCEPT !.cache = CacheDelete(st.cache, key),
               !.tasks = Append(@, Task("removeItem", key, NONE, "remove", NONE, 0))]

\* clear() up to its await of Storage.getAllKeys().
OnyxClear(st) ==
    [st EXCEPT !.tasks = Append(@, [Task("getAllKeys", NoKey, NONE, "clear", NONE, 0)
                                        EXCEPT !.keys = CacheKeys(st.cache)])]

\* ConnectionManager.connect: the connection of the ID is created and
\* subscribed if there is none, the callback is added to it, and a
\* connection that has delivered before replays its cached value.
ManagerConnect(st, key, wait) ==
    LET id == generateConnectionID(st, key, wait)
        callbackID == st.lastCallbackID + 1
        found == ConnIndex(st.conns, id)
        conns1 == IF found # 0 THEN st.conns
                  ELSE Append(st.conns,
                              [id |-> id, subscriptionID |-> st.lastSubscriptionID,
                               key |-> key, isConnectionMade |-> FALSE, cbs |-> <<>>,
                               cval |-> UNDEF, ckey |-> NoKey, wait |-> wait])
        at == IF found # 0 THEN found ELSE Len(conns1)
        conns2 == [conns1 EXCEPT ![at].cbs = Append(@, callbackID)]
    IN  [st EXCEPT
            !.conns = conns2,
            !.subs = IF found # 0 THEN @
                     ELSE Append(@, [id |-> st.lastSubscriptionID, key |-> key,
                                     conn |-> id]),
            !.lastCallbackID = callbackID,
            !.lastSubscriptionID = IF found # 0 THEN @ ELSE @ + 1,
            !.tasks = IF conns2[at].isConnectionMade
                      THEN Append(@, [Task("replay", key, conns2[at].cval, "connect",
                                           NONE, callbackID) EXCEPT !.conn = id])
                      ELSE @]

\* connect(options): ConnectionManager.connect, then the initial value is
\* fetched: the cached aggregate for a collection key, get(key) otherwise.
OnyxConnect(st, key, wait) ==
    LET st1 == ManagerConnect(st, key, wait)
    IN  IF isCollectionKey(key)
        THEN [st1 EXCEPT
                !.cache = CacheAfterGetCollection(st1.cache, key),
                !.tasks = Append(@, Task("collection", key,
                                         CacheGetCollection(st1.cache, key),
                                         "connect", NONE, st1.lastCallbackID))]
        ELSE OnyxGet(st1, key, "connect", NONE, st1.lastCallbackID)

\* unsubscribeFromKey(subscriptionID)
unsubscribeFromKey(subs, subscriptionID) ==
    SelectSeq(subs, LAMBDA x : x.id # subscriptionID)

\* ConnectionManager.disconnect({id, callbackID}): the callback is removed;
\* a connection left without callbacks is deleted, after the manager that
\* has an unsubscription handler unsubscribed it.  A replay still queued
\* keeps the metadata it captured.
DisconnectWholeConnection(st, id, callbackID) ==
    LET at == ConnIndex(st.conns, id)
    IN  IF at = 0 \/ callbackID \notin SeqToSet(st.conns[at].cbs) THEN st
        ELSE [st EXCEPT
                !.conns = SubSeq(@, 1, at - 1) \o SubSeq(@, at + 1, Len(@)),
                !.subs = unsubscribeFromKey(@, st.conns[at].subscriptionID)]

DisconnectByConnectionID(st, id, callbackID) ==
    LET at == ConnIndex(st.conns, id)
        cbs1 == Remove(st.conns[at].cbs, callbackID)
    IN  IF at = 0 THEN st
        ELSE IF cbs1 # <<>> /\ cbs1 # st.conns[at].cbs
             THEN [st EXCEPT !.conns[at].cbs = cbs1]
        ELSE [st EXCEPT
                !.conns = SubSeq(@, 1, at - 1) \o SubSeq(@, at + 1, Len(@)),
                !.subs = unsubscribeFromKey(@, st.conns[at].subscriptionID)]

ManagerDisconnect(st, id, callbackID) ==
    LET at == ConnIndex(st.conns, id)
        cbs1 == Remove(st.conns[at].cbs, callbackID)
    IN  IF at = 0 THEN st
        ELSE IF cbs1 # <<>> THEN [st EXCEPT !.conns[at].cbs = cbs1]
        ELSE [st EXCEPT
                !.conns = SubSeq(@, 1, at - 1) \o SubSeq(@, at + 1, Len(@)),
                !.subs = IF st.unsub
                         THEN unsubscribeFromKey(@, st.conns[at].subscriptionID)
                         ELSE @,
                !.tasks = [j \in 1..Len(@) |->
                             IF @[j].t = "replay" /\ @[j].conn = id
                             THEN [@[j] EXCEPT !.val = st.conns[at].cval, !.conn = NoConn]
                             ELSE @[j]]]

\* The keys whose write the provider has been asked for and has not settled.
PendingWrites(st) ==
    {st.tasks[j].key : j \in {n \in 1..Len(st.tasks) : st.tasks[n].t = "setItem"}}

\* What runs when a get(key) resolves with value: merge computes the new
\* value and calls set, connect hands the value to the callback while any
\* connection exists, a plain get returns it.
Continue(st, task, value) ==
    CASE task.cont = "merge" ->
            LET newValue == mergeValue(value, task.arg)
            IN  [st |-> OnyxSet(st, task.key, newValue), ds |-> <<>>,
                 evicts |-> CacheSetEvicts(st.cache, task.key, newValue)]
      [] task.cont = "connect" ->
            [st |-> st,
             ds |-> IF getConnectionCount(st) > 0 THEN << <<task.cb, value>> >> ELSE <<>>,
             evicts |-> {}]
      [] OTHER -> [st |-> st, ds |-> <<>>, evicts |-> {}]

\* Storage.getItem settles: get() caches a value that is not null and
\* resolves.
GetItemDone(st, i) ==
    LET task == st.tasks[i]
        value == StorageGetItem(st.store, task.key)
        st1 == [st EXCEPT !.tasks = DropTask(@, i),
                          !.cache = IF value # NULL THEN CacheSet(@, task.key, value) ELSE @]
        r == Continue(st1, task, value)
    IN  [r EXCEPT !.evicts = @ \cup (IF value # NULL
                                     THEN CacheSetEvicts(st.cache, task.key, value)
                                     ELSE {})]

\* A write to the key reached the provider: a fetch pending since before a
\* clear() no longer reads what the key held then.
Overwritten(tasks, key) ==
    [j \in 1..Len(tasks) |->
        IF tasks[j].key = key /\ tasks[j].cont = "connect"
        THEN [tasks[j] EXCEPT !.old = NONE]
        ELSE tasks[j]]

\* Storage.setItem settles: set() notifies the subscribers.
SetItemDone(st, i) ==
    LET task == st.tasks[i]
    IN  notifySubscribers([st EXCEPT !.tasks = Overwritten(DropTask(@, i), task.key),
                                     !.store[task.key] = task.val],
                          task.key, task.val)

\* Storage.removeItem settles: remove() notifies the subscribers with null.
RemoveItemDone(st, i) ==
    LET task == st.tasks[i]
    IN  notifySubscribers([st EXCEPT !.tasks = Overwritten(DropTask(@, i), task.key),
                                     !.store[task.key] = UNDEF],
                          task.key, NULL)

\* Storage.getAllKeys settles inside clear(): the cache is cleared, the
\* subscribers of every key are notified with null and the provider is
\* asked to clear.
GetAllKeysDone(st, i) ==
    LET task == st.tasks[i]
        allKeys == SetToSeq(task.keys) \o SetToSeq(StorageGetAllKeys(st.store) \ task.keys)
        st1 == [st EXCEPT !.cache = CacheClear(@),
                          !.tasks = Append(DropTask(@, i),
                                           Task("clear", NoKey, NONE, "clear", NONE, 0))]
    IN  NotifyAll(st1, allKeys)

\* Storage.clear settles inside clear(): the session is refreshed.
ClearDone(st, i) ==
    [st EXCEPT !.tasks = DropTask(@, i),
               !.store = EmptyStore,
               !.sessionID = @ + 1]

\* The value a queued replay hands over: the cached value of the metadata
\* it captured.
ReplayValueAtConnect(st, task) == task.val

ReplayValue(st, task) ==
    IF ConnIndex(st.conns, task.conn) # 0
    THEN st.conns[ConnIndex(st.conns, task.conn)].cval
    ELSE task.val

\* The value the key holds for a reader: the cached value, else the
\* provider's.
HeldValue(st, key) ==
    IF CacheHas(st.cache, key) THEN CacheGetValue(st.cache, key)
    ELSE StorageGetItem(st.store, key)

\* clear() is called: the initial fetches that are pending remember what
\* their key held.
Stamped(st) ==
    [st EXCEPT !.tasks = [j \in 1..Len(@) |->
        IF @[j].cont = "connect" /\ @[j].t \in {"getItem", "cached"}
        THEN [st.tasks[j] EXCEPT !.old = HeldValue(st, st.tasks[j].key)]
        ELSE @[j]]]

\* The payloads ds reach their callbacks: what each callback got last, and
\* whether one of them got a payload equal to the one it got just before.
RECURSIVE Delivered(_, _)
Delivered(last, ds) ==
    IF ds = <<>> THEN [last |-> last, dup |-> FALSE]
    ELSE LET cb == Head(ds)[1]
             v == Head(ds)[2]
             rest == Delivered([last EXCEPT ![cb] = v], Tail(ds))
         IN  [last |-> rest.last, dup |-> rest.dup \/ last[cb] = v]

\* The callbacks attached to some connection.
Attached(st) == UNION {SeqToSet(st.conns[i].cbs) : i \in 1..Len(st.conns)}

NoEvent ==
    [op |-> "none", dup |-> FALSE, same |-> FALSE, stale |-> FALSE, lost |-> FALSE,
     got |-> NONE, gone |-> FALSE, call |-> FALSE, refetch |-> FALSE,
     direct |-> FALSE, wrong |-> FALSE]

\* The collection the calls so far give for the collection key.
ExpectedCollection(ck) ==
    Coll({<<k, kbg.exp[k]>> : k \in {m \in AllKeys : /\ isCollectionMemberKey(m, ck)
                                                     /\ kbg.exp[m] # NULL}})

\* In the scenario "mergeCollection, then connect to the collection in
\* collection mode" (kbg.scen), the deliveries hold the first payload of the
\* connected callback and it is not the merged collection.
FirstIsWrong(ds) ==
    /\ kbg.scen \in {"connected", "connectedAfter"}
    /\ kbg.last[1] = NONE
    /\ \E j \in 1..Len(ds) :
          /\ ds[j][1] = 1
          /\ \A i \in 1..(j - 1) : ds[i][1] # 1
          /\ ds[j][2] # ExpectedCollection(KeyR)

\* The record of a step of a pending task.
Stepped(op, ds, stale, lost, got) ==
    [kbg EXCEPT !.last = Delivered(kbg.last, ds).last,
                !.ev = [op |-> op, dup |-> Delivered(kbg.last, ds).dup, same |-> FALSE,
                        stale |-> stale, lost |-> lost, got |-> got,
                        gone |-> \E j \in 1..Len(ds) : ds[j][1] \notin Attached(kb),
                        call |-> FALSE, refetch |-> FALSE, direct |-> FALSE,
                        wrong |-> FirstIsWrong(ds)]]

\* The record of a call of the API.
Called(op, exp, lost) ==
    [kbg EXCEPT !.ev = [NoEvent EXCEPT !.op = op, !.lost = lost, !.call = TRUE],
                !.exp = exp,
                !.mergeOnly = @ /\ op \in {"merge", "mergeCollection"},
                !.scen = IF op = "mergeCollection" /\ kbg.n = 0 THEN "merged" ELSE "off",
                !.n = @ + 1]

\* The record of a call that reads the keys through get(): refetch notes
\* a provider read of a key whose last provider read returned null, with no
\* write of the key and no clear() since (kbg.empty).
Reading(g, keys) ==
    [g EXCEPT !.ev.refetch = \E k \in keys :
                                /\ k \in kbg.empty
                                /\ CacheGetValue(kb.cache, k) = UNDEF]

\* The keys known to be empty after task has settled with the value.
EmptyAfter(task, value) ==
    IF task.cont = "merge" THEN kbg.empty \ {task.key}
    ELSE IF value = NULL THEN kbg.empty \cup {task.key}
    ELSE kbg.empty

RECURSIVE MergedAll(_, _)
MergedAll(exp, entries) ==
    IF entries = <<>> THEN exp
    ELSE MergedAll([exp EXCEPT ![Head(entries)[1]] = mergeValue(@, Head(entries)[2])],
                   Tail(entries))

KbCollections == { << <<KeyR1, ObjB>>, <<KeyR2, ObjA>> >> }

\* A call may be made: calls and pending tasks are bounded.
KbMayCall(added) ==
    /\ kbg.n < MaxKbCalls
    /\ Len(kb.tasks) + added <= MaxKbTasks

KbInit ==
    /\ CacheIdle /\ CmIdle /\ MgIdle /\ S1Idle /\ SbIdle /\ KuIdle /\ PxIdle /\ ObIdle
    /\ \E m \in KbMaxSizes, store \in KbStores :
        kb = [cache |-> CacheSetMaxSize(NewCache, m), store |-> store, conns |-> <<>>,
              subs |-> <<>>, unsub |-> TRUE, sessionID |-> 0, lastSubscriptionID |-> 0, lastCallbackID |-> 0,
              tasks |-> <<>>]
    /\ kbg = [last |-> [c \in 1..MaxKbSubs |-> NONE], ev |-> NoEvent,
              exp |-> [k \in AllKeys |-> StorageGetItem(kb.store, k)],
              mergeOnly |-> TRUE, n |-> 0, empty |-> {}, scen |-> "start"]

\* Onyx.get(key)
KbGet(k) ==
    /\ KbMayCall(1)
    /\ OnlyKb
    /\ kb' = OnyxGet(kb, k, "app", NONE, 0)
    /\ kbg' = Reading(Called("get", kbg.exp, FALSE), {k})

\* The callbacks that subscribe to the key and got the value v last.
GotLast(k, v) ==
    {cb \in 1..MaxKbSubs :
        /\ kbg.last[cb] = v
        /\ \E i \in 1..Len(kb.conns) :
               kb.conns[i].key = k /\ cb \in SeqToSet(kb.conns[i].cbs)}

\* Onyx.set(key, value); the write remembers whether a subscriber of the
\* key got an equal value last.
KbSet(k, v) ==
    /\ KbMayCall(1)
    /\ OnlyKb
    /\ kb' = [OnyxSet(kb, k, v) EXCEPT
                !.tasks[Len(kb.tasks) + 1].old = IF GotLast(k, v) # {} THEN v ELSE NONE]
    /\ kbg' = [Called("set", [kbg.exp EXCEPT ![k] = v],
                      CacheSetEvicts(kb.cache, k, v) \cap PendingWrites(kb) # {})
                  EXCEPT !.empty = @ \ {k},
                         !.ev.direct = isCollectionKey(k) /\ OnyxSet(kb, k, v) # kb]

\* Onyx.merge(key, changes)
KbMerge(k, changes) ==
    /\ KbMayCall(1)
    /\ OnlyKb
    /\ kb' = OnyxMerge(kb, k, changes)
    /\ kbg' = Reading(Called("merge", [kbg.exp EXCEPT ![k] = mergeValue(@, changes)],
                              FALSE), {k})

\* Onyx.mergeCollection(collectionKey, collection)
KbMergeCollection(entries) ==
    /\ KbMayCall(Len(entries))
    /\ OnlyKb
    /\ kb' = OnyxMergeCollection(kb, entries)
    /\ kbg' = Reading(Called("mergeCollection", MergedAll(kbg.exp, entries), FALSE),
                       {entries[j][1] : j \in 1..Len(entries)})

\* Onyx.remove(key)
KbRemove(k) ==
    /\ KbMayCall(1)
    /\ OnlyKb
    /\ kb' = OnyxRemove(kb, k)
    /\ kbg' = [Called("remove", [kbg.exp EXCEPT ![k] = NULL], FALSE)
                  EXCEPT !.empty = @ \ {k}]

\* Onyx.clear()
KbClear ==
    /\ KbMayCall(1)
    /\ OnlyKb
    /\ kb' = OnyxClear(Stamped(kb))
    /\ kbg' = [Called("clear", [k \in AllKeys |-> NULL], FALSE) EXCEPT !.empty = {}]

\* Onyx.connect({key, callback, waitForCollectionCallback})
KbConnect(k, wait) ==
    /\ KbMayCall(2)
    /\ OnlyKb
    /\ kb.lastCallbackID < MaxKbSubs
    /\ wait => isCollectionKey(k)
    /\ kb' = OnyxConnect(kb, k, wait)
    /\ kbg' = [Reading(Called("connect", kbg.exp, FALSE),
                        IF isCollectionKey(k) THEN {} ELSE {k})
                  EXCEPT !.scen = IF kbg.scen = "merged" /\ k = KeyR /\ wait
                                  THEN IF kb.tasks = <<>> THEN "connectedAfter"
                                       ELSE "connected"
                                  ELSE "off"]

\* Onyx.disconnect(connection), with a handle connect returned
KbDisconnect(i, cb) ==
    /\ KbMayCall(0)
    /\ OnlyKb
    /\ i \in 1..Len(kb.conns)
    /\ cb \in SeqToSet(kb.conns[i].cbs)
    /\ kb' = ManagerDisconnect(kb, kb.conns[i].id, cb)
    /\ kbg' = Called("disconnect", kbg.exp, FALSE)

\* Task i of the kind t is pending and may run.
KbPending(i, t) ==
    /\ i \in 1..Len(kb.tasks)
    /\ kb.tasks[i].t = t
    /\ Runnable(kb.tasks, i)

\* The provider answers a getItem.
KbGetItemDone(i) ==
    /\ KbPending(i, "getItem")
    /\ OnlyKb
    /\ LET task == kb.tasks[i]
           value == StorageGetItem(kb.store, task.key)
           r == GetItemDone(kb, i)
       IN  /\ kb' = r.st
           /\ kbg' = [Stepped("getItem", r.ds,
                              /\ task.cont = "connect" /\ r.ds # <<>>
                              /\ task.old # NONE /\ value = task.old /\ value # NULL,
                              r.evicts \cap PendingWrites(kb) # {},
                              IF task.cont = "app" THEN value ELSE NONE)
                          EXCEPT !.empty = EmptyAfter(task, value)]

\* The continuation of a get() that found the value in the cache.
KbCachedDone(i) ==
    /\ KbPending(i, "cached")
    /\ OnlyKb
    /\ LET task == kb.tasks[i]
           r == Continue([kb EXCEPT !.tasks = DropTask(@, i)], task, task.val)
       IN  /\ kb' = r.st
           /\ kbg' = [Stepped("cached", r.ds,
                              /\ task.cont = "connect" /\ r.ds # <<>>
                              /\ task.old # NONE /\ task.val = task.old /\ task.val # NULL,
                              r.evicts \cap PendingWrites(kb) # {},
                              IF task.cont = "app" THEN task.val ELSE NONE)
                          EXCEPT !.empty = IF task.cont = "merge" THEN @ \ {task.key} ELSE @]

\* The continuation of connect() on a collection key.
KbCollectionDone(i) ==
    /\ KbPending(i, "collection")
    /\ OnlyKb
    /\ LET task == kb.tasks[i]
           r == Continue([kb EXCEPT !.tasks = DropTask(@, i)], task, task.val)
       IN  /\ kb' = r.st
           /\ kbg' = Stepped("collection", r.ds, FALSE, FALSE, NONE)

\* The replay ConnectionManager.connect queued for a connection that had
\* delivered before.
KbReplay(i) ==
    /\ KbPending(i, "replay")
    /\ OnlyKb
    /\ kb' = [kb EXCEPT !.tasks = DropTask(@, i)]
    /\ kbg' = Stepped("replay", << <<kb.tasks[i].cb, ReplayValue(kb, kb.tasks[i])>> >>,
                      FALSE, FALSE, NONE)

\* The provider settles a setItem.
KbSetItemDone(i) ==
    /\ KbPending(i, "setItem")
    /\ OnlyKb
    /\ kb' = SetItemDone(kb, i).st
    /\ kbg' = [Stepped("setItem", SetItemDone(kb, i).ds, FALSE, FALSE, NONE) EXCEPT
                 !.ev.same = /\ kb.tasks[i].old # NONE
                             /\ GotLast(kb.tasks[i].key, kb.tasks[i].val) # {}]

\* The provider settles a removeItem.
KbRemoveItemDone(i) ==
    /\ KbPending(i, "removeItem")
    /\ OnlyKb
    /\ kb' = RemoveItemDone(kb, i).st
    /\ kbg' = Stepped("removeItem", RemoveItemDone(kb, i).ds, FALSE, FALSE, NONE)

\* The provider answers the getAllKeys of a clear().
KbGetAllKeysDone(i) ==
    /\ KbPending(i, "getAllKeys")
    /\ OnlyKb
    /\ kb' = GetAllKeysDone(kb, i).st
    /\ kbg' = Stepped("getAllKeys", GetAllKeysDone(kb, i).ds, FALSE, FALSE, NONE)

\* The provider settles the clear of a clear().
KbClearDone(i) ==
    /\ KbPending(i, "clear")
    /\ OnlyKb
    /\ kb' = ClearDone(kb, i)
    /\ kbg' = Stepped("clear", <<>>, FALSE, FALSE, NONE)

KbNext ==
    \/ \E k \in KbKeys : KbGet(k)
    \/ \E k \in KbSetKeys, v \in KbValues : KbSet(k, v)
    \/ \E k \in KbKeys, c \in KbChanges : KbMerge(k, c)
    \/ \E e \in KbCollections : KbMergeCollection(e)
    \/ \E k \in KbKeys : KbRemove(k)
    \/ KbClear
    \/ \E k \in KbConnectKeys, w \in BOOLEAN : KbConnect(k, w)
    \/ \E i \in 1..MaxKbSubs, cb \in 1..MaxKbSubs : KbDisconnect(i, cb)
    \/ \E i \in 1..MaxKbTasks : KbGetItemDone(i)
    \/ \E i \in 1..MaxKbTasks : KbCachedDone(i)
    \/ \E i \in 1..MaxKbTasks : KbCollectionDone(i)
    \/ \E i \in 1..MaxKbTasks : KbReplay(i)
    \/ \E i \in 1..MaxKbTasks : KbSetItemDone(i)
    \/ \E i \in 1..MaxKbTasks : KbRemoveItemDone(i)
    \/ \E i \in 1..MaxKbTasks : KbGetAllKeysDone(i)
    \/ \E i \in 1..MaxKbTasks : KbClearDone(i)

(***************************************************************************)
(* SpecCM: the ConnectionManager and Onyx's subscribers on their own,      *)
(* driven by connect, disconnect, writes that notify, and session          *)
(* refreshes.  Two managers are driven: the one whose disconnect calls the *)
(* unsubscription handler, and the one that has no such handler.           *)
(*   cm  : [cache, conns, subs, unsub, sessionID, lastSubscriptionID,      *)
(*          lastCallbackID, tasks]  as in kb; tasks holds the replays      *)
(*   cmg : [handles, got, seen, ev, n]  the connection ID of the handle    *)
(*         connect returned for each callback, the payload each callback   *)
(*         got last, the (key, mode) pairs connected since the session     *)
(*         was refreshed last, the effects of the last step and the        *)
(*         number of calls                                                 *)
(***************************************************************************)
MaxCmCalls == 5
MaxCmSubs == 3

CmConnectKeys == {KeyS, KeyR}
CmWriteKeys == {KeyS, KeyR1}
CmValues == {ObjA, ObjB}

NoCmEvent ==
    [op |-> "none", cb |-> 0, ds |-> <<>>, again |-> FALSE, held |-> FALSE,
     reg |-> FALSE, made |-> FALSE, queued |-> FALSE, stale |-> FALSE,
     same |-> FALSE, others |-> FALSE, all |-> FALSE, known |-> FALSE]

RECURSIVE GotAfter(_, _)
GotAfter(got, ds) ==
    IF ds = <<>> THEN got
    ELSE GotAfter([got EXCEPT ![Head(ds)[1]] = Head(ds)[2]], Tail(ds))

CmInit ==
    /\ CacheIdle /\ KbIdle /\ MgIdle /\ S1Idle /\ SbIdle /\ KuIdle /\ PxIdle /\ ObIdle
    /\ \E u \in BOOLEAN :
        cm = [cache |-> NewCache, conns |-> <<>>, subs |-> <<>>, unsub |-> u,
              sessionID |-> 0, lastSubscriptionID |-> 0, lastCallbackID |-> 0,
              tasks |-> <<>>]
    /\ cmg = [handles |-> <<>>, got |-> [c \in 1..MaxCmSubs |-> NONE], seen |-> {},
              ev |-> NoCmEvent, n |-> 0]

\* The connections of the key and mode that were made in this session.
SameTarget(st, k, w) ==
    {i \in 1..Len(st.conns) :
        /\ st.conns[i].key = k
        /\ st.conns[i].wait = w
        /\ st.conns[i].id.session = st.sessionID}

\* ConnectionManager.connect({key, callback, waitForCollectionCallback})
CmConnect(k, w) ==
    /\ cmg.n < MaxCmCalls
    /\ cm.lastCallbackID < MaxCmSubs
    /\ w => isCollectionKey(k)
    /\ OnlyCm
    /\ cm' = ManagerConnect(cm, k, w)
    /\ cmg' = [cmg EXCEPT
                 !.handles = Append(@, generateConnectionID(cm, k, w)),
                 !.seen = @ \cup {<<k, w>>},
                 !.n = @ + 1,
                 !.ev = [NoCmEvent EXCEPT
                           !.op = "connect",
                           !.cb = cm.lastCallbackID + 1,
                           !.again = <<k, w>> \in cmg.seen,
                           !.held = SameTarget(cm, k, w) # {} /\ (isCollectionKey(k) => w),
                           !.reg = Len(cm'.subs) # Len(cm.subs),
                           !.made = \E i \in SameTarget(cm, k, w) :
                                       /\ isCollectionKey(k) => w
                                       /\ \E c \in SeqToSet(cm.conns[i].cbs) :
                                              cmg.got[c] # NONE,
                           !.queued = \E j \in 1..Len(cm'.tasks) :
                                         /\ cm'.tasks[j].t = "replay"
                                         /\ cm'.tasks[j].cb = cm.lastCallbackID + 1]]

\* ConnectionManager.disconnect(handle), with any handle connect returned
CmDisconnect(cb) ==
    /\ cmg.n < MaxCmCalls
    /\ cb \in 1..Len(cmg.handles)
    /\ OnlyCm
    /\ cm' = ManagerDisconnect(cm, cmg.handles[cb], cb)
    /\ cmg' = [cmg EXCEPT
                 !.n = @ + 1,
                 !.ev = [NoCmEvent EXCEPT
                           !.op = "disconnect",
                           !.cb = cb,
                           !.stale = cb \notin Attached(cm),
                           !.same = cm' = cm,
                           !.others = Attached(cm') = Attached(cm) \ {cb}]]

\* A write of the key: the cache takes the value and notifySubscribers
\* runs, as at the end of Onyx.set.
CmWrite(k, v) ==
    /\ cmg.n < MaxCmCalls
    /\ OnlyCm
    /\ LET r == notifySubscribers([cm EXCEPT !.cache = CacheSet(@, k, v)], k, v)
           targets == UNION {SeqToSet(cm.conns[i].cbs) :
                               i \in {x \in 1..Len(cm.conns) :
                                        \/ cm.conns[x].key = k
                                        \/ /\ isCollectionKey(cm.conns[x].key)
                                           /\ isCollectionMemberKey(k, cm.conns[x].key)}}
       IN  /\ cm' = r.st
           /\ cmg' = [cmg EXCEPT
                        !.got = GotAfter(@, r.ds),
                        !.n = @ + 1,
                        !.ev = [NoCmEvent EXCEPT
                                  !.op = "write",
                                  !.ds = r.ds,
                                  !.all = \A c \in targets :
                                             \E j \in 1..Len(r.ds) : r.ds[j][1] = c]]

\* ConnectionManager.refreshSessionID()
CmRefresh ==
    /\ cmg.n < MaxCmCalls
    /\ OnlyCm
    /\ cm' = [cm EXCEPT !.sessionID = @ + 1]
    /\ cmg' = [cmg EXCEPT !.seen = {}, !.n = @ + 1,
                          !.ev = [NoCmEvent EXCEPT !.op = "refresh"]]

\* The replay connect queued runs: the callback gets the cached value of
\* the metadata.  The record notes whether that is the payload the other
\* callbacks of the connection got last.
CmReplay(i) ==
    /\ i \in 1..Len(cm.tasks)
    /\ cm.tasks[i].t = "replay"
    /\ Runnable(cm.tasks, i)
    /\ OnlyCm
    /\ LET task == cm.tasks[i]
           v == ReplayValue(cm, task)
           at == ConnIndex(cm.conns, task.conn)
       IN  /\ cm' = [cm EXCEPT !.tasks = DropTask(@, i)]
           /\ cmg' = [cmg EXCEPT
                        !.got[task.cb] = v,
                        !.ev = [NoCmEvent EXCEPT
                                  !.op = "replay",
                                  !.cb = task.cb,
                                  !.ds = << <<task.cb, v>> >>,
                                  !.known = \/ at = 0
                                            \/ \A c \in SeqToSet(cm.conns[at].cbs) :
                                                  cmg.got[c] \in {NONE, v}]]

CmNext ==
    \/ \E k \in CmConnectKeys, w \in BOOLEAN : CmConnect(k, w)
    \/ \E cb \in 1..MaxCmSubs : CmDisconnect(cb)
    \/ \E k \in CmWriteKeys, v \in CmValues : CmWrite(k, v)
    \/ CmRefresh
    \/ \E i \in 1..MaxCmSubs : CmReplay(i)

(***************************************************************************)
(* The merge functions: fastMergeImmer and its helpers, the deepMerge of   *)
(* the observer-based prototype and the merge rule of the key-based one,   *)
(* over JSON values.  A value is null, undefined, a number, an array of    *)
(* numbers or a plain object, which is a function from its own keys to     *)
(* values.  Mark stands for the key ONYX_INTERNALS__REPLACE_OBJECT_MARK.   *)
(***************************************************************************)
Mark == "ONYX_INTERNALS__REPLACE_OBJECT_MARK"

\* No value at all: a property an object lacks, a row the table lacks.
Absent == [k |-> "absent", o |-> <<>>]

JNull == [k |-> "null", o |-> <<>>]
JUndef == [k |-> "undef", o |-> <<>>]
JPrim(n) == [k |-> "prim", o |-> n]
JArr(elems) == [k |-> "arr", o |-> elems]
JObj(f) == [k |-> "obj", o |-> f]
JTrue == [k |-> "bool", o |-> TRUE]
JEmpty == JObj(<<>>)

\* typeof v === 'object' && v !== null
IsObjectLike(v) == v.k \in {"obj", "arr"}

\* Object.keys(v); the arrays here have at most one element.
Keys(v) ==
    IF v.k = "obj" THEN DOMAIN v.o
    ELSE IF v.k = "arr" /\ Len(v.o) > 0 THEN {"0"}
    ELSE {}

\* v[key], undefined when v has no such property
Get(v, key) ==
    IF key \notin Keys(v) THEN JUndef
    ELSE IF v.k = "arr" THEN JPrim(v.o[1])
    ELSE v.o[key]

Truthy(v) == v.k \in {"bool", "prim", "obj", "arr"}

\* {...v}
SpreadOf(v) == JObj([key \in Keys(v) |-> Get(v, key)])

\* obj[key] = v
With(obj, key, v) ==
    JObj([x \in DOMAIN obj.o \cup {key} |-> IF x = key THEN v ELSE obj.o[x]])

\* delete obj[key]
Without(obj, key) == JObj([x \in DOMAIN obj.o \ {key} |-> obj.o[x]])

RECURSIVE removeNestedNullValuesImmer(_)
removeNestedNullValuesImmer(value) ==
    IF value.k # "obj" THEN value
    ELSE LET kept == {key \in DOMAIN value.o : value.o[key].k \notin {"null", "undef"}}
         IN  JObj([key \in kept |->
                     IF value.o[key].k = "obj"
                     THEN removeNestedNullValuesImmer(value.o[key])
                     ELSE value.o[key]])

\* The draft after mergeObjectImmer(draft, source, options).  A property
\* the function deletes or never sets is undefined in property(key).
RECURSIVE mergeObjectImmer(_, _, _)
mergeObjectImmer(draft, source, options) ==
    LET property(key) ==
            LET sourceProperty == source.o[key]
                draftProperty == Get(draft, key)
                nested == IF draftProperty.k = "obj"
                          THEN mergeObjectImmer(draftProperty, sourceProperty, options)
                          ELSE sourceProperty
                cleanedValue == removeNestedNullValuesImmer(nested)
            IN  IF sourceProperty.k = "undef" THEN draftProperty
                ELSE IF options.shouldRemoveNestedNulls /\ sourceProperty.k = "null"
                THEN JUndef
                ELSE IF /\ options.objectRemovalMode = "replace"
                        /\ IsObjectLike(sourceProperty)
                        /\ Truthy(Get(sourceProperty, Mark))
                THEN Without(SpreadOf(sourceProperty), Mark)
                ELSE IF options.objectRemovalMode = "mark" /\ draftProperty.k = "null"
                THEN With(SpreadOf(sourceProperty), Mark, JTrue)
                ELSE IF sourceProperty.k \in {"arr", "null", "prim", "bool"} THEN sourceProperty
                ELSE IF options.shouldRemoveNestedNulls /\ nested.k = "obj"
                THEN IF Keys(cleanedValue) = {} THEN JUndef ELSE cleanedValue
                ELSE nested
        value(key) == IF key \in DOMAIN source.o THEN property(key) ELSE draft.o[key]
        keys == {key \in DOMAIN draft.o \cup DOMAIN source.o : value(key).k # "undef"}
    IN  JObj([key \in keys |-> value(key)])

\* The patches generateReplaceNullPatches pushes, each <<path, value>>.
RECURSIVE generateReplaceNullPatches(_, _, _)
generateReplaceNullPatches(target, source, basePath) ==
    UNION {LET sourceProperty == source.o[key]
               targetProperty == Get(target, key)
           IN  IF sourceProperty.k = "undef" THEN {}
               ELSE IF targetProperty.k = "null" /\ IsObjectLike(sourceProperty)
               THEN {<<Append(basePath, key), sourceProperty>>}
               ELSE IF sourceProperty.k = "obj"
               THEN generateReplaceNullPatches(
                        IF Truthy(targetProperty) THEN targetProperty ELSE JEmpty,
                        sourceProperty, Append(basePath, key))
               ELSE {}
           : key \in DOMAIN source.o}

\* fastMergeImmer that deletes the source's nulls whatever the options say
FastMergeDroppingNulls(target, source, options) ==
    IF source.k \in {"arr", "null", "undef"}
    THEN [result |-> source, replaceNullPatches |-> {}]
    ELSE IF IsObjectLike(target) /\ IsObjectLike(source) /\ target.k # "arr"
    THEN [result |-> mergeObjectImmer(target, source,
                         [options EXCEPT !.shouldRemoveNestedNulls = TRUE]),
          replaceNullPatches |-> {}]
    ELSE [result |-> source, replaceNullPatches |-> {}]

fastMergeImmer(target, source, options) ==
    IF source.k \in {"arr", "null", "undef"}
    THEN [result |-> source, replaceNullPatches |-> {}]
    ELSE IF target.k = "null" /\ options.objectRemovalMode = "mark"
    THEN [result |-> With(SpreadOf(source), Mark, JTrue),
          replaceNullPatches |-> {<< <<>>, source >>}]
    ELSE IF target.k = "arr" /\ IsObjectLike(source)
    THEN [result |-> source, replaceNullPatches |-> {}]
    ELSE IF IsObjectLike(target) /\ IsObjectLike(source)
    THEN [result |-> mergeObjectImmer(target, source, options),
          replaceNullPatches |->
              IF options.objectRemovalMode = "mark"
              THEN generateReplaceNullPatches(target, source, <<>>)
              ELSE {}]
    ELSE [result |-> source, replaceNullPatches |-> {}]

\* deepMerge(target, source) of the observer-based prototype
RECURSIVE deepMerge(_, _)
deepMerge(target, source) ==
    IF ~IsObjectLike(target) THEN source
    ELSE IF source.k # "obj" THEN source
    ELSE JObj([key \in Keys(target) \cup DOMAIN source.o |->
                 IF key \notin DOMAIN source.o THEN Get(target, key)
                 ELSE IF source.o[key].k = "obj"
                 THEN deepMerge(Get(target, key), source.o[key])
                 ELSE source.o[key]])

\* The new value merge() of the key-based prototype passes to set():
\* {...currentValue, ...changes} for an object, else the changes.
mergeNewValue(currentValue, changes) ==
    IF currentValue.k = "obj"
    THEN JObj([key \in Keys(currentValue) \cup Keys(changes) |->
                 IF key \in Keys(changes) THEN Get(changes, key)
                 ELSE Get(currentValue, key)])
    ELSE changes

(***************************************************************************)
(* The SQLite provider's write of a merge.  A JSON text is held as the     *)
(* value its parse gives, so stringifyJSON is the function from a value to *)
(* what the database reads out of the text: properties that are undefined  *)
(* or that the replacer turns into undefined are not in it.                *)
(***************************************************************************)
objectMarkRemover(key, value) == IF key = Mark THEN JUndef ELSE value

\* stringifyJSON(data, objectMarkRemover) when withRemover, else stringifyJSON(data)
RECURSIVE stringifyJSON(_, _)
stringifyJSON(data, withRemover) ==
    IF data.k # "obj" THEN data
    ELSE LET replaced(key) == IF withRemover
                              THEN objectMarkRemover(key, data.o[key])
                              ELSE data.o[key]
             kept == {key \in DOMAIN data.o : replaced(key).k # "undef"}
         IN  JObj([key \in kept |-> stringifyJSON(replaced(key), withRemover)])

\* SQLite's JSON_PATCH(valueJSON, JSON(:value)), the merge patch of RFC 7396
RECURSIVE JSON_PATCH(_, _)
JSON_PATCH(valueJSON, patch) ==
    IF patch.k # "obj" THEN patch
    ELSE LET base == IF valueJSON.k = "obj" THEN valueJSON ELSE JEmpty
             value(key) ==
                 IF key \notin DOMAIN patch.o THEN base.o[key]
                 ELSE IF patch.o[key].k = "null" THEN JUndef
                 ELSE JSON_PATCH(Get(base, key), patch.o[key])
             keys == {key \in DOMAIN base.o \cup DOMAIN patch.o : value(key).k # "undef"}
         IN  JObj([key \in keys |-> value(key)])

\* SQLite's JSON_REPLACE(valueJSON, '$.' + path joined by '.', JSON(value)):
\* it overwrites a member that exists and does nothing otherwise.
RECURSIVE JSON_REPLACE(_, _, _)
JSON_REPLACE(valueJSON, path, value) ==
    IF Len(path) = 0 THEN value
    ELSE IF valueJSON.k # "obj" \/ path[1] \notin DOMAIN valueJSON.o THEN valueJSON
    ELSE With(valueJSON, path[1], JSON_REPLACE(valueJSON.o[path[1]], Tail(path), value))

\* [jsonPath, stringifyJSON(value), key] for every patch
generateJSONReplaceSQLQueries(patches) ==
    {<<patch[1], stringifyJSON(patch[2], FALSE)>> : patch \in patches}

\* The replace query run for every one of the queries; no path of a
\* merge's patches is a prefix of another, so their order does not matter.
RECURSIVE ReplaceAll(_, _)
ReplaceAll(valueJSON, queries) ==
    IF queries = {} THEN valueJSON
    ELSE LET query == CHOOSE q \in queries : TRUE
         IN  ReplaceAll(JSON_REPLACE(valueJSON, query[1], query[2]), queries \ {query})

\* The rows multiMerge([[key, value, replaceNullPatches]]) may leave for
\* the key.  A patch for the root gives the path '$.', which SQLite
\* rejects: the batch then either rolls back or keeps its first command.
multiMerge(stored, value, replaceNullPatches) ==
    IF value.k = "undef" THEN {stored}
    ELSE LET changeWithoutMarkers == stringifyJSON(value, TRUE)
             patched == IF stored = Absent THEN changeWithoutMarkers
                        ELSE JSON_PATCH(stored, changeWithoutMarkers)
         IN  IF \E patch \in replaceNullPatches : Len(patch[1]) = 0
             THEN {stored, patched}
             ELSE {ReplaceAll(patched, generateJSONReplaceSQLQueries(replaceNullPatches))}

(***************************************************************************)
(* SpecMerge: one target, one source, one set of options and one stored    *)
(* row, drawn at the start; one of the merge functions applied to target   *)
(* and source; and the write of fastMerge's output to the row.             *)
(*   mg : [target, source, options, op, result, replaceNullPatches, db,    *)
(*         change, folded]                                                 *)
(*        db      the row's value in the database, Absent when none        *)
(*        change  a second change, merged after the source                 *)
(*        folded  the target merged with the two changes merged first      *)
(***************************************************************************)
\* The objects that take, for every key of choices, one of its values or
\* lack the key (Absent).
ObjectsOver(choices) ==
    {JObj([key \in {x \in DOMAIN f : f[x] # Absent} |-> f[key]]) :
        f \in {g \in [DOMAIN choices -> UNION {choices[x] : x \in DOMAIN choices}] :
                 \A x \in DOMAIN choices : g[x] \in choices[x]}}

Marked(obj) == With(obj, Mark, JTrue)

MgTargetInner ==
    ObjectsOver([c |-> {Absent, JPrim(1), JNull, JObj([e |-> JPrim(1)])},
                 d |-> {Absent, JPrim(1)}])

MgTargets ==
    ObjectsOver([a |-> {Absent, JNull, JPrim(1), JArr(<<1>>)} \cup MgTargetInner,
                 b |-> {Absent, JPrim(1)}])
        \cup {JNull, JPrim(1), JArr(<<1>>)}

MgSourceInner ==
    ObjectsOver([c |-> {Absent, JPrim(2), JNull, JObj([e |-> JPrim(2)]),
                        Marked(JObj([e |-> JPrim(2)]))},
                 d |-> {Absent, JPrim(2)}])

MgPlainSources ==
    ObjectsOver([a |-> {Absent, JNull, JUndef, JPrim(2), JArr(<<2>>)}
                          \cup MgSourceInner \cup {Marked(obj) : obj \in MgSourceInner},
                 b |-> {Absent, JPrim(2)}])

MgSources ==
    MgPlainSources \cup {Marked(obj) : obj \in MgPlainSources}
        \cup {JNull, JPrim(2), JArr(<<2>>)}

MgOptions ==
    [shouldRemoveNestedNulls : BOOLEAN, objectRemovalMode : {"none", "mark", "replace"}]

\* What the row may hold before the write
MgStored ==
    {Absent, JObj([a |-> JNull]), JObj([a |-> JObj([c |-> JPrim(1)]), b |-> JPrim(1)])}

MgInit ==
    /\ CacheIdle /\ KbIdle /\ CmIdle /\ S1Idle /\ SbIdle /\ KuIdle /\ PxIdle /\ ObIdle
    /\ \E target \in MgTargets, source \in MgSources, options \in MgOptions,
          stored \in MgStored :
        mg = [target |-> target, source |-> source, options |-> options,
              op |-> "new", result |-> JUndef, replaceNullPatches |-> {},
              db |-> stored, change |-> JUndef, folded |-> JUndef]

\* utils.fastMerge(target, source, options)
MgFastMerge ==
    /\ mg.op = "new"
    /\ OnlyMg
    /\ mg' = [mg EXCEPT
                !.op = "fastMerge",
                !.result = fastMergeImmer(mg.target, mg.source, mg.options).result,
                !.replaceNullPatches =
                    fastMergeImmer(mg.target, mg.source, mg.options).replaceNullPatches]

\* merge() of the observer-based prototype, on a current value and changes
MgDeepMerge ==
    /\ mg.op = "new"
    /\ OnlyMg
    /\ mg' = [mg EXCEPT
                !.op = "deepMerge",
                !.result = IF mg.target.k = "obj"
                           THEN deepMerge(mg.target, mg.source)
                           ELSE mg.source]

\* merge() of the key-based prototype, on a current value and changes
MgMerge ==
    /\ mg.op = "new"
    /\ OnlyMg
    /\ mg' = [mg EXCEPT !.op = "merge", !.result = mergeNewValue(mg.target, mg.source)]

\* provider.mergeItem(key, change, replaceNullPatches) with what fastMerge
\* returned, which is multiMerge of the one pair
MgMergeItem ==
    /\ mg.op = "fastMerge"
    /\ OnlyMg
    /\ \E row \in multiMerge(mg.db, mg.result, mg.replaceNullPatches) :
          mg' = [mg EXCEPT !.op = "mergeItem", !.db = row]

\* The second changes of a pair of merges
MgChanges ==
    ObjectsOver([a |-> {Absent, JObj([d |-> JPrim(3)]), JObj([d |-> JNull])},
                 b |-> {Absent, JPrim(3), JNull}]) \ {JEmpty}

\* utils.fastMerge of the target with the source and then with a second
\* change, and of the target with the merge of the two changes, under the
\* same options
MgFastMergeTwice(change) ==
    /\ mg.op = "new"
    /\ OnlyMg
    /\ LET first == fastMergeImmer(mg.target, mg.source, mg.options).result
           both == fastMergeImmer(mg.source, change, mg.options).result
       IN  mg' = [mg EXCEPT
                    !.op = "fastMergeTwice",
                    !.change = change,
                    !.result = fastMergeImmer(first, change, mg.options).result,
                    !.folded = fastMergeImmer(mg.target, both, mg.options).result]

MgNext ==
    \/ MgFastMerge
    \/ MgDeepMerge
    \/ MgMerge
    \/ MgMergeItem
    \/ \E change \in MgChanges : MgFastMergeTwice(change)

(***************************************************************************)
(* The store-based prototype over the OnyxStore module: a state object     *)
(* with a version, listeners that are all called on every change, and the  *)
(* Storage module over its MemoryStorage, whose reads and writes act at    *)
(* the call.                                                               *)
(*   s1  : [state, version, connections, connectionIdCounter, disk, tasks] *)
(*         state        OnyxStore's state, UNDEF for a key it lacks        *)
(*         connections  the connections in the order their listeners were  *)
(*                      subscribed, each [id, key]                         *)
(*         disk         MemoryStorage's Map                                *)
(*         tasks        the get() calls that wait for Storage.getItem,     *)
(*                      each with the value it read                        *)
(*   s1g : [ev, n]  the call or step taken last with the callbacks it      *)
(*         invoked, and the number of calls                                *)
(***************************************************************************)
MaxS1Calls == 3
MaxS1Subs == 2

S1Keys == {KeyS, KeyR1}
S1ConnectKeys == {KeyS, KeyR, KeyR1}
S1Values == {NULL, ObjA}
S1Changes == {ObjA, ObjB}
S1Collections == { << <<KeyR1, ObjB>>, <<KeyR2, ObjA>> >>, << <<KeyR2, ObjA>> >> }
S1Disks == {EmptyStore, [EmptyStore EXCEPT ![KeyS] = ObjA]}

\* MemoryStorage.getItem: storage.get(key) ?? null
MemoryGetItem(disk, k) == IF disk[k] \in {UNDEF, NULL} THEN NULL ELSE disk[k]

\* OnyxStore.get: state[key] ?? null
StoreGet(st, k) == IF st.state[k] \in {UNDEF, NULL} THEN NULL ELSE st.state[k]

\* OnyxStore.getCollection: every key of the state that starts with the
\* collection key, whatever its value.
StoreGetCollection(st, ck) ==
    Coll({<<k, st.state[k]>> :
            k \in {m \in AllKeys : st.state[m] # UNDEF /\ isCollectionMemberKey(m, ck)}})

\* The listener connect() subscribes: the callback gets the aggregate for a
\* collection key, the value otherwise.
ListenerPayload(st, key) ==
    IF isCollectionKey(key) THEN StoreGetCollection(st, key) ELSE StoreGet(st, key)

\* notifyListeners: every listener runs; the payloads by connection id.
StoreNotify(st) ==
    [i \in 1..Len(st.connections) |->
        <<st.connections[i].id, ListenerPayload(st, st.connections[i].key)>>]

\* OnyxStore.set
StoreSet(st, k, v) == [st EXCEPT !.state[k] = v, !.version = @ + 1]

\* OnyxStore.merge
StoreMerge(st, k, changes) ==
    [st EXCEPT !.state[k] = mergeValue(@, changes), !.version = @ + 1]

RECURSIVE StoreMergeEntries(_, _)
StoreMergeEntries(state, entries) ==
    IF entries = <<>> THEN state
    ELSE StoreMergeEntries([state EXCEPT ![Head(entries)[1]] =
                                mergeValue(@, Head(entries)[2])], Tail(entries))

\* OnyxStore.mergeCollection: every entry is merged, one version, one
\* notification.
StoreMergeCollection(st, entries) ==
    [st EXCEPT !.state = StoreMergeEntries(@, entries), !.version = @ + 1]

\* OnyxStore.remove
StoreRemove(st, k) == [st EXCEPT !.state[k] = UNDEF, !.version = @ + 1]

\* OnyxStore.clear
StoreClear(st) == [st EXCEPT !.state = EmptyStore, !.version = @ + 1]

\* Storage.multiSet over MemoryStorage, with the values the store holds.
RECURSIVE MemoryMultiSet(_, _, _)
MemoryMultiSet(disk, st, entries) ==
    IF entries = <<>> THEN disk
    ELSE MemoryMultiSet([disk EXCEPT ![Head(entries)[1]] = StoreGet(st, Head(entries)[1])],
                        st, Tail(entries))

\* The call or step taken last, the callbacks it invoked with their
\* payloads, and the keys a mergeCollection wrote.
S1Event(op, ds) == [op |-> op, ds |-> ds, keys |-> {}]

S1Called(op, ds) == [s1g EXCEPT !.ev = S1Event(op, ds), !.n = @ + 1]

S1Init ==
    /\ CacheIdle /\ KbIdle /\ CmIdle /\ MgIdle /\ SbIdle /\ KuIdle /\ PxIdle /\ ObIdle
    /\ \E disk \in S1Disks :
        s1 = [state |-> [k \in AllKeys |-> IF MemoryGetItem(disk, k) = NULL
                                           THEN UNDEF ELSE disk[k]],
              version |-> Cardinality({k \in AllKeys : MemoryGetItem(disk, k) # NULL}),
              connections |-> <<>>, connectionIdCounter |-> 0,
              disk |-> disk, tasks |-> <<>>]
    /\ s1g = [ev |-> S1Event("none", <<>>), n |-> 0]

\* Onyx.get(key): the store's value when it has one, else the value
\* Storage.getItem read, which the store takes once the get resumes.
S1Get(k) ==
    /\ s1g.n < MaxS1Calls
    /\ OnlyS1
    /\ s1' = IF StoreGet(s1, k) # NULL THEN s1
             ELSE [s1 EXCEPT !.tasks = Append(@, [key |-> k,
                                                  val |-> MemoryGetItem(s1.disk, k)])]
    /\ s1g' = S1Called("get", <<>>)

\* A get() that waited for Storage.getItem resumes: a value that is not
\* null is set in the store, which notifies the listeners.
S1GetDone ==
    /\ s1.tasks # <<>>
    /\ OnlyS1
    /\ LET task == Head(s1.tasks)
           st1 == [s1 EXCEPT !.tasks = Tail(@)]
           st2 == IF task.val # NULL THEN StoreSet(st1, task.key, task.val) ELSE st1
       IN  /\ s1' = st2
           /\ s1g' = [s1g EXCEPT !.ev = S1Event("getDone",
                         IF task.val # NULL THEN StoreNotify(st2) ELSE <<>>)]

\* Onyx.set(key, value)
S1Set(k, v) ==
    /\ s1g.n < MaxS1Calls
    /\ OnlyS1
    /\ s1' = [StoreSet(s1, k, v) EXCEPT !.disk[k] = v]
    /\ s1g' = S1Called("set", StoreNotify(StoreSet(s1, k, v)))

\* Onyx.merge(key, changes)
S1Merge(k, changes) ==
    /\ s1g.n < MaxS1Calls
    /\ OnlyS1
    /\ s1' = [StoreMerge(s1, k, changes) EXCEPT
                !.disk[k] = StoreGet(StoreMerge(s1, k, changes), k)]
    /\ s1g' = S1Called("merge", StoreNotify(StoreMerge(s1, k, changes)))

\* Onyx.mergeCollection(collectionKey, collection)
S1MergeCollection(entries) ==
    /\ s1g.n < MaxS1Calls
    /\ OnlyS1
    /\ LET st1 == StoreMergeCollection(s1, entries)
       IN  /\ s1' = [st1 EXCEPT !.disk = MemoryMultiSet(@, st1, entries)]
           /\ s1g' = [S1Called("mergeCollection", StoreNotify(st1)) EXCEPT
                        !.ev.keys = {entries[j][1] : j \in 1..Len(entries)}]

\* Onyx.remove(key)
S1Remove(k) ==
    /\ s1g.n < MaxS1Calls
    /\ OnlyS1
    /\ s1' = [StoreRemove(s1, k) EXCEPT !.disk[k] = UNDEF]
    /\ s1g' = S1Called("remove", StoreNotify(StoreRemove(s1, k)))

\* Onyx.clear()
S1Clear ==
    /\ s1g.n < MaxS1Calls
    /\ OnlyS1
    /\ s1' = [StoreClear(s1) EXCEPT !.disk = EmptyStore]
    /\ s1g' = S1Called("clear", StoreNotify(StoreClear(s1)))

\* Onyx.connect({key, callback}): the listener is subscribed and then
\* called, before connect returns.
S1Connect(k) ==
    /\ s1g.n < MaxS1Calls
    /\ s1.connectionIdCounter < MaxS1Subs
    /\ OnlyS1
    /\ s1' = [s1 EXCEPT !.connections = Append(@, [id |-> s1.connectionIdCounter, key |-> k]),
                        !.connectionIdCounter = @ + 1]
    /\ s1g' = S1Called("connect", << <<s1.connectionIdCounter, ListenerPayload(s1, k)>> >>)

\* Onyx.disconnect(connection)
S1Disconnect(i) ==
    /\ s1g.n < MaxS1Calls
    /\ i \in 1..Len(s1.connections)
    /\ OnlyS1
    /\ s1' = [s1 EXCEPT !.connections = SubSeq(@, 1, i - 1) \o SubSeq(@, i + 1, Len(@))]
    /\ s1g' = S1Called("disconnect", <<>>)

S1Next ==
    \/ \E k \in S1Keys : S1Get(k)
    \/ S1GetDone
    \/ \E k \in S1Keys, v \in S1Values : S1Set(k, v)
    \/ \E k \in S1Keys, c \in S1Changes : S1Merge(k, c)
    \/ \E e \in S1Collections : S1MergeCollection(e)
    \/ \E k \in S1Keys : S1Remove(k)
    \/ S1Clear
    \/ \E k \in S1ConnectKeys : S1Connect(k)
    \/ \E i \in 1..MaxS1Subs : S1Disconnect(i)

(***************************************************************************)
(* The store-based prototype over the OnyxStore class: the Cache is the    *)
(* in-memory store, its listeners are all called on every change, and the  *)
(* Storage class keeps a collection as one entry of the provider.          *)
(*   sb  : [cache, ver, disk, conns, nextConnectionId, tasks]              *)
(*         cache  the Cache (Map and accessOrder)                          *)
(*         ver    per key the number of objects cached under it so far:    *)
(*                the identity of the object the Map holds, which the      *)
(*                listeners compare with !==                               *)
(*         disk   the provider's contents; a collection key holds the      *)
(*                aggregate of its members                                 *)
(*         conns  the connections in the order their listeners were        *)
(*                subscribed, each [id, key, lastValue, lastVer]           *)
(*         tasks  what is pending: provider requests, which settle in any  *)
(*                order, and continuations of a get() served from memory   *)
(*   sbg : [ev, n]  the call or step taken last and the number of calls    *)
(***************************************************************************)
MaxSbCalls == 3
MaxSbSubs == 2
MaxSbTasks == 3

SbKeys == {KeyS, KeyR1}
SbValues == {NULL, ObjB}
SbChanges == {ObjB}
SbSetKeys == SbKeys \cup {KeyR2}
SbCollections == { << <<KeyR1, ObjB>>, <<KeyR2, ObjA>> >> }
SbMaxSizes == {1, DefaultMaxSize}

\* The durable contents a start can find.
SbDisks ==
    {EmptyStore,
     [EmptyStore EXCEPT ![KeyS] = ObjA, ![KeyR] = Coll({<<KeyR1, ObjA>>})]}

\* OnyxStore.getValue: Cache.get(key), null on a miss.
getValue(st, k) ==
    IF CacheGetValue(st.cache, k) = UNDEF THEN NULL ELSE CacheGetValue(st.cache, k)

\* newValue !== lastValue: null and primitives compare by value, objects by
\* identity.
Differs(v, ver, lastValue, lastVer) ==
    \/ v # lastValue
    \/ v.k \in {"obj", "coll"} /\ ver # lastVer

\* notifyListeners from listener i on: each listener reads its key, which
\* touches the key's recency, and calls back when the value is not the one
\* it saw last.  The result is the state and the payloads by connection id.
RECURSIVE SbNotifyFrom(_, _)
SbNotifyFrom(st, i) ==
    IF i > Len(st.conns) THEN [st |-> st, ds |-> <<>>]
    ELSE LET c == st.conns[i]
             newValue == getValue(st, c.key)
             changed == Differs(newValue, st.ver[c.key], c.lastValue, c.lastVer)
             st1 == [st EXCEPT
                        !.cache = CacheGetTouch(@, c.key),
                        !.conns[i].lastValue = IF changed THEN newValue ELSE @,
                        !.conns[i].lastVer = IF changed THEN st.ver[c.key] ELSE @]
             rest == SbNotifyFrom(st1, i + 1)
         IN  [st |-> rest.st,
              ds |-> (IF changed THEN << <<c.id, newValue>> >> ELSE <<>>) \o rest.ds]

notifyListeners(st) == SbNotifyFrom(st, 1)

\* OnyxStore.setValue: null deletes the key from the Cache, another value
\* is cached; then the listeners are notified.
setValue(st, k, v) ==
    notifyListeners(IF v \in {NULL, UNDEF}
                    THEN [st EXCEPT !.cache = CacheDelete(@, k)]
                    ELSE [st EXCEPT !.cache = CacheSet(@, k, v), !.ver[k] = @ + 1])

\* Cache.setMany: every entry is stored and made the most recent, and the
\* eviction runs once after the last.
RECURSIVE CacheSetEach(_, _)
CacheSetEach(c, entries) ==
    IF entries = <<>> THEN c
    ELSE CacheSetEach([Touch(c, Head(entries)[1]) EXCEPT !.m[Head(entries)[1]] = Head(entries)[2]],
                      Tail(entries))

CacheSetMany(c, entries) == evictIfNeeded(CacheSetEach(c, entries))

RECURSIVE CacheDeleteEach(_, _)
CacheDeleteEach(c, keys) ==
    IF keys = <<>> THEN c
    ELSE CacheDeleteEach(CacheDelete(c, Head(keys)), Tail(keys))

\* OnyxStore.setValues: the null updates are deleted from the Cache, the
\* others are stored with one setMany, and the listeners are notified once.
setValues(st, updates) ==
    LET nulls == SelectSeq(updates, LAMBDA u : u[2] \in {NULL, UNDEF})
        filtered == SelectSeq(updates, LAMBDA u : u[2] \notin {NULL, UNDEF})
        stored == {filtered[j][1] : j \in 1..Len(filtered)}
    IN  notifyListeners(
            [st EXCEPT
                !.cache = CacheSetMany(
                              CacheDeleteEach(@, [j \in 1..Len(nulls) |-> nulls[j][1]]),
                              filtered),
                !.ver = [k \in AllKeys |-> IF k \in stored THEN @[k] + 1 ELSE @[k]]])

\* OnyxStore.removeValue
removeValue(st, k) == notifyListeners([st EXCEPT !.cache = CacheDelete(@, k)])

\* OnyxStore.clear
storeClear(st) == notifyListeners([st EXCEPT !.cache = CacheClear(@)])

\* A pending task of the store-based prototype.  key is the Onyx key, val
\* the value carried (a cached value, or the value to write), ver the
\* identity of a cached value, cont the caller that waits for a get, arg
\* the changes of a merge, cb the connection of a connect, dkey and dval
\* the provider's key and value of a write.  want is kept for the callers'
\* record: the value of the write to the key that was in memory and not
\* yet durable when the get was called (NONE when there was none).  For a
\* mergeCollection, ck is its collection key, rest the entries it has still
\* to load and updates the new values it has computed so far.
SbTask(t, key, val, cont, arg, cb) ==
    [t |-> t, key |-> key, val |-> val, ver |-> 0, cont |-> cont, arg |-> arg,
     cb |-> cb, dkey |-> NoKey, dval |-> NONE, want |-> NONE,
     ck |-> NoKey, rest |-> <<>>, updates |-> <<>>]

\* The provider's key of an Onyx key: the collection key for a member.
ProviderKey(k) ==
    IF getCollectionKey(k) # NoKey /\ ~isCollectionKey(k) THEN getCollectionKey(k) ELSE k

\* Storage.getItem(key) over the provider's contents: a member is read out
\* of its collection's aggregate.
SbStorageGetItem(disk, k) ==
    IF ProviderKey(k) # k
    THEN IF disk[ProviderKey(k)].k = "coll"
            /\ \E p \in disk[ProviderKey(k)].o : p[1] = k /\ p[2] \notin {NULL, UNDEF}
         THEN (CHOOSE p \in disk[ProviderKey(k)].o : p[1] = k)[2]
         ELSE NULL
    ELSE IF disk[k] = UNDEF THEN NULL ELSE disk[k]

\* The aggregate Storage.setItem / removeItem writes back for a member.
WithMember(disk, k, v) ==
    LET ck == ProviderKey(k)
        cur == IF disk[ck].k = "coll" THEN disk[ck].o ELSE {}
        rest == {p \in cur : p[1] # k}
    IN  Coll(IF v = NULL THEN rest ELSE rest \cup {<<k, v>>})

\* Storage.setItem(key, value) up to its first await.
SbStorageSetItem(k, v) ==
    IF ProviderKey(k) # k
    THEN SbTask("readForWrite", k, v, "set", NONE, 0)
    ELSE [SbTask("setItem", k, v, "set", NONE, 0) EXCEPT !.dkey = k, !.dval = v]

\* Storage.removeItem(key) up to its first await.
SbStorageRemoveItem(k) ==
    IF ProviderKey(k) # k
    THEN SbTask("readForWrite", k, NULL, "remove", NONE, 0)
    ELSE SbTask("removeItem", k, NULL, "remove", NONE, 0)

\* The value of the latest write to the key that is in memory and not yet
\* durable, NONE when there is none.
PendingWriteValue(st, k) ==
    LET ws == {j \in 1..Len(st.tasks) :
                 st.tasks[j].t \in {"readForWrite", "setItem", "removeItem"}
                 /\ st.tasks[j].key = k}
    IN  IF ws = {} THEN NONE
        ELSE st.tasks[CHOOSE j \in ws : \A i \in ws : i <= j].val

\* A new write to the key: the gets of the key that are pending no longer
\* answer for the earlier one.
Superseded(tasks, k) ==
    [j \in 1..Len(tasks) |->
        IF tasks[j].key = k /\ tasks[j].t \in {"cached", "getItem"}
        THEN [tasks[j] EXCEPT !.want = NONE]
        ELSE tasks[j]]

\* get(key) up to its await: a value in memory resolves the get, a miss
\* asks Storage.getItem.
SbOnyxGet(st, key, cont, arg, cb) ==
    LET storeValue == getValue(st, key)
        task == IF storeValue # NULL
                THEN [SbTask("cached", key, storeValue, cont, arg, cb)
                         EXCEPT !.ver = st.ver[key]]
                ELSE SbTask("getItem", key, NONE, cont, arg, cb)
    IN  [st EXCEPT !.cache = CacheGetTouch(@, key),
                   !.tasks = Append(@, [task EXCEPT !.want = PendingWriteValue(st, key)])]

\* set(key, value) up to its await: the store is updated, which notifies
\* the listeners, and Storage.setItem is called.
SbOnyxSet(st, key, value) ==
    LET r == setValue(st, key, value)
    IN  [st |-> [r.st EXCEPT !.tasks = Append(Superseded(@, key),
                                              SbStorageSetItem(key, value))],
         ds |-> r.ds]

\* remove(key) up to its await.
SbOnyxRemove(st, key) ==
    LET r == removeValue(st, key)
    IN  [st |-> [r.st EXCEPT !.tasks = Append(Superseded(@, key),
                                              SbStorageRemoveItem(key))],
         ds |-> r.ds]

\* clear() up to its await.
SbOnyxClear(st) ==
    LET r == storeClear(st)
    IN  [st |-> [r.st EXCEPT !.tasks = Append(@, SbTask("clear", NoKey, NONE, "clear",
                                                        NONE, 0))],
         ds |-> r.ds]

\* Storage.setCollectionMembers(collectionKey, members) up to its first
\* await, the read of the collection.
SbStorageSetCollectionMembers(collectionKey, members) ==
    [SbTask("readForWriteMany", NoKey, NONE, "mergeCollection", NONE, 0) EXCEPT
        !.ck = collectionKey, !.updates = members]

\* The collection setCollectionMembers writes back: a null member is
\* deleted from what was read, another is set.
RECURSIVE CollectionWith(_, _)
CollectionWith(pairs, members) ==
    IF members = <<>> THEN pairs
    ELSE LET k == Head(members)[1]
             v == Head(members)[2]
             others == {p \in pairs : p[1] # k}
         IN  CollectionWith(IF v = NULL THEN others ELSE others \cup {<<k, v>>},
                            Tail(members))

\* The loop of mergeCollection from the entry at the head of entries, up
\* to the await of its get(key).
SbLoadNext(st, collectionKey, entries, updates) ==
    LET st1 == SbOnyxGet(st, Head(entries)[1], "mergeCollection", Head(entries)[2], 0)
    IN  [st1 EXCEPT !.tasks[Len(st1.tasks)] =
            [@ EXCEPT !.ck = collectionKey, !.rest = Tail(entries), !.updates = updates]]

SbConnIndex(conns, id) ==
    IF \E i \in 1..Len(conns) : conns[i].id = id
    THEN CHOOSE i \in 1..Len(conns) : conns[i].id = id
    ELSE 0

\* What runs when a get(key) resolves with value: merge computes the new
\* value and calls set, connect records the value as the last one seen and
\* calls the callback, a plain get returns it.
SbContinue(st, task, value, ver) ==
    CASE task.cont = "merge" -> SbOnyxSet(st, task.key, mergeValue(value, task.arg))
      [] task.cont = "mergeCollection" ->
            LET updates == Append(task.updates, <<task.key, mergeValue(value, task.arg)>>)
                r == setValues(st, updates)
            IN  IF task.rest # <<>>
                THEN [st |-> SbLoadNext(st, task.ck, task.rest, updates), ds |-> <<>>]
                ELSE [st |-> [r.st EXCEPT !.tasks =
                                 Append(@, SbStorageSetCollectionMembers(task.ck, updates))],
                      ds |-> r.ds]
      [] task.cont = "connect" ->
            LET at == SbConnIndex(st.conns, task.cb)
            IN  [st |-> IF at = 0 THEN st
                        ELSE [st EXCEPT !.conns[at].lastValue = value,
                                        !.conns[at].lastVer = ver],
                 ds |-> << <<task.cb, value>> >>]
      [] OTHER -> [st |-> st, ds |-> <<>>]

\* Storage.getItem settles: get() stores a value that is not null, which
\* notifies the listeners, and resolves.
SbGetItemSettled(st, i) ==
    LET task == st.tasks[i]
        value == SbStorageGetItem(st.disk, task.key)
        st1 == [st EXCEPT !.tasks = DropTask(@, i)]
        r1 == IF value # NULL THEN setValue(st1, task.key, value)
              ELSE [st |-> st1, ds |-> <<>>]
        r2 == SbContinue(r1.st, task, value, r1.st.ver[task.key])
    IN  [st |-> r2.st, ds |-> r1.ds \o r2.ds]

\* mc, notified and updates are kept for a step of a mergeCollection: mc
\* is "loading" when the step resumed it with entries still to load and
\* "applied" when the step made its setValues, notified the number of
\* times the step ran notifyListeners, updates the values of its setValues.
NoSbEvent ==
    [op |-> "none", key |-> NoKey, val |-> NONE, afterSet |-> FALSE, read |-> FALSE,
     ret |-> NONE, want |-> NONE, got |-> NONE, ds |-> <<>>,
     mc |-> "none", notified |-> 0, updates |-> <<>>]

\* The scenario the calls so far make: "one" after a first call that sets
\* a value for the member "r_1", "overlap" after a second call that sets a
\* value for the member "r_2" while the first write is still pending, "off"
\* after any other call.
SbScenario(ev) ==
    IF sbg.scen = "start" /\ ev.op = "set" /\ ev.key = KeyR1 /\ ev.val # NULL
    THEN "one"
    ELSE IF /\ sbg.scen = "one" /\ ev.op = "set" /\ ev.key = KeyR2 /\ ev.val # NULL
            /\ sb.tasks # <<>>
    THEN "overlap"
    ELSE "off"

SbCalled(ev) == [sbg EXCEPT !.ev = ev, !.n = @ + 1, !.scen = SbScenario(ev)]

SbStepped(ev) == [sbg EXCEPT !.ev = ev]

\* A call may be made: calls and pending tasks are bounded.
SbMayCall ==
    /\ sbg.n < MaxSbCalls
    /\ Len(sb.tasks) < MaxSbTasks

SbInit ==
    /\ CacheIdle /\ KbIdle /\ CmIdle /\ MgIdle /\ S1Idle /\ KuIdle /\ PxIdle /\ ObIdle
    /\ \E m \in SbMaxSizes, disk \in SbDisks :
        sb = [cache |-> CacheSetMaxSize(NewCache, m), ver |-> [k \in AllKeys |-> 0],
              disk |-> disk, conns |-> <<>>, nextConnectionId |-> 1, tasks |-> <<>>]
    /\ sbg = [ev |-> NoSbEvent, n |-> 0, scen |-> "start"]

\* Onyx.get(key).  The record notes whether the call follows a set of the
\* same key directly, whether it asks the durable store, and what memory
\* returned.
SbGet(k) ==
    /\ SbMayCall
    /\ OnlySb
    /\ sb' = SbOnyxGet(sb, k, "app", NONE, 0)
    /\ sbg' = SbCalled([NoSbEvent EXCEPT
                  !.op = "get", !.key = k,
                  !.afterSet = (sbg.ev.op = "set" /\ sbg.ev.key = k),
                  !.val = IF sbg.ev.op = "set" /\ sbg.ev.key = k THEN sbg.ev.val ELSE NONE,
                  !.read = (getValue(sb, k) = NULL),
                  !.ret = getValue(sb, k)])

\* Onyx.set(key, value)
SbSet(k, v) ==
    /\ SbMayCall
    /\ OnlySb
    /\ sb' = SbOnyxSet(sb, k, v).st
    /\ sbg' = SbCalled([NoSbEvent EXCEPT !.op = "set", !.key = k, !.val = v,
                                         !.ds = SbOnyxSet(sb, k, v).ds])

\* Onyx.merge(key, changes)
SbMerge(k, changes) ==
    /\ SbMayCall
    /\ OnlySb
    /\ sb' = SbOnyxGet(sb, k, "merge", changes, 0)
    /\ sbg' = SbCalled([NoSbEvent EXCEPT !.op = "merge", !.key = k])

\* Onyx.mergeCollection(collectionKey, collection), up to the await of
\* the get of its first member
SbMergeCollection(entries) ==
    /\ SbMayCall
    /\ OnlySb
    /\ sb' = SbLoadNext(sb, KeyR, entries, <<>>)
    /\ sbg' = SbCalled([NoSbEvent EXCEPT !.op = "mergeCollection", !.key = KeyR])

\* Onyx.remove(key)
SbRemove(k) ==
    /\ SbMayCall
    /\ OnlySb
    /\ sb' = SbOnyxRemove(sb, k).st
    /\ sbg' = SbCalled([NoSbEvent EXCEPT !.op = "remove", !.key = k,
                                         !.ds = SbOnyxRemove(sb, k).ds])

\* Onyx.clear()
SbClear ==
    /\ SbMayCall
    /\ OnlySb
    /\ sb' = SbOnyxClear(sb).st
    /\ sbg' = SbCalled([NoSbEvent EXCEPT !.op = "clear", !.ds = SbOnyxClear(sb).ds])

\* Onyx.connect({key, callback}): a listener is subscribed with no value
\* seen yet, and get(key) fetches the initial value.
SbConnect(k) ==
    /\ SbMayCall
    /\ sb.nextConnectionId <= MaxSbSubs
    /\ OnlySb
    /\ sb' = SbOnyxGet([sb EXCEPT
                          !.conns = Append(@, [id |-> sb.nextConnectionId, key |-> k,
                                               lastValue |-> NULL, lastVer |-> 0]),
                          !.nextConnectionId = @ + 1],
                       k, "connect", NONE, sb.nextConnectionId)
    /\ sbg' = SbCalled([NoSbEvent EXCEPT !.op = "connect", !.key = k])

\* Onyx.disconnect(connection)
SbDisconnect(i) ==
    /\ sbg.n < MaxSbCalls
    /\ i \in 1..Len(sb.conns)
    /\ OnlySb
    /\ sb' = [sb EXCEPT !.conns = SubSeq(@, 1, i - 1) \o SubSeq(@, i + 1, Len(@))]
    /\ sbg' = SbCalled([NoSbEvent EXCEPT !.op = "disconnect"])

\* Task i of the kind t is pending and may run: a continuation waits for
\* the continuations queued before it.
SbPending(i, t) ==
    /\ i \in 1..Len(sb.tasks)
    /\ sb.tasks[i].t = t
    /\ t = "cached" => \A j \in 1..(i - 1) : sb.tasks[j].t # "cached"

\* The record of a get() that resolves; stored tells whether the get put
\* the value it read in the store.
SbResolved(task, value, ds, stored) ==
    IF task.cont = "app"
    THEN [NoSbEvent EXCEPT !.op = "got", !.key = task.key, !.want = task.want,
                           !.got = value, !.ds = ds]
    ELSE IF task.cont = "mergeCollection"
    THEN [NoSbEvent EXCEPT
            !.op = "step", !.key = task.key, !.ds = ds,
            !.mc = IF task.rest # <<>> THEN "loading" ELSE "applied",
            !.notified = (IF stored THEN 1 ELSE 0) + (IF task.rest # <<>> THEN 0 ELSE 1),
            !.updates = IF task.rest # <<>> THEN <<>>
                        ELSE Append(task.updates, <<task.key, mergeValue(value, task.arg)>>)]
    ELSE [NoSbEvent EXCEPT !.op = "step", !.key = task.key, !.ds = ds]

\* The continuation of a get() served from memory.
SbCachedDone(i) ==
    /\ SbPending(i, "cached")
    /\ OnlySb
    /\ LET task == sb.tasks[i]
           r == SbContinue([sb EXCEPT !.tasks = DropTask(@, i)], task, task.val, task.ver)
       IN  /\ sb' = r.st
           /\ sbg' = SbStepped(SbResolved(task, task.val, r.ds, FALSE))

\* The provider answers the read of a Storage.getItem.
SbGetItemDone(i) ==
    /\ SbPending(i, "getItem")
    /\ OnlySb
    /\ sb' = SbGetItemSettled(sb, i).st
    /\ sbg' = SbStepped(SbResolved(sb.tasks[i], SbStorageGetItem(sb.disk, sb.tasks[i].key),
                                   SbGetItemSettled(sb, i).ds,
                                   SbStorageGetItem(sb.disk, sb.tasks[i].key) # NULL))

\* The provider answers the read of the collection inside Storage.setItem
\* or removeItem of a member: the aggregate is updated and written back.
SbReadForWriteDone(i) ==
    /\ SbPending(i, "readForWrite")
    /\ OnlySb
    /\ sb' = [sb EXCEPT !.tasks[i] =
                [sb.tasks[i] EXCEPT
                    !.t = "setItem", !.dkey = ProviderKey(sb.tasks[i].key),
                    !.dval = WithMember(sb.disk, sb.tasks[i].key, sb.tasks[i].val)]]
    /\ sbg' = SbStepped([NoSbEvent EXCEPT !.op = "step"])

\* The provider answers the read of the collection inside
\* Storage.setCollectionMembers: the members are put in what was read and
\* the collection is written back.
SbReadForWriteManyDone(i) ==
    /\ SbPending(i, "readForWriteMany")
    /\ OnlySb
    /\ LET task == sb.tasks[i]
           read == IF sb.disk[task.ck].k = "coll" THEN sb.disk[task.ck].o ELSE {}
       IN  sb' = [sb EXCEPT !.tasks[i] =
                    [task EXCEPT !.t = "setItem", !.dkey = task.ck,
                                 !.dval = Coll(CollectionWith(read, task.updates))]]
    /\ sbg' = SbStepped([NoSbEvent EXCEPT !.op = "step"])

\* The provider settles a setItem.
SbSetItemDone(i) ==
    /\ SbPending(i, "setItem")
    /\ OnlySb
    /\ sb' = [sb EXCEPT !.disk[sb.tasks[i].dkey] = sb.tasks[i].dval,
                        !.tasks = DropTask(@, i)]
    /\ sbg' = SbStepped([NoSbEvent EXCEPT !.op = "step"])

\* The provider settles a removeItem.
SbRemoveItemDone(i) ==
    /\ SbPending(i, "removeItem")
    /\ OnlySb
    /\ sb' = [sb EXCEPT !.disk[sb.tasks[i].key] = UNDEF, !.tasks = DropTask(@, i)]
    /\ sbg' = SbStepped([NoSbEvent EXCEPT !.op = "step"])

\* The provider settles a clear.
SbClearDone(i) ==
    /\ SbPending(i, "clear")
    /\ OnlySb
    /\ sb' = [sb EXCEPT !.disk = EmptyStore, !.tasks = DropTask(@, i)]
    /\ sbg' = SbStepped([NoSbEvent EXCEPT !.op = "step"])

SbNext ==
    \/ \E k \in SbKeys : SbGet(k)
    \/ \E k \in SbSetKeys, v \in SbValues : SbSet(k, v)
    \/ \E k \in SbKeys, c \in SbChanges : SbMerge(k, c)
    \/ \E e \in SbCollections : SbMergeCollection(e)
    \/ \E k \in SbKeys : SbRemove(k)
    \/ SbClear
    \/ \E k \in SbKeys : SbConnect(k)
    \/ \E i \in 1..MaxSbSubs : SbDisconnect(i)
    \/ \E i \in 1..MaxSbTasks : SbCachedDone(i)
    \/ \E i \in 1..MaxSbTasks : SbGetItemDone(i)
    \/ \E i \in 1..MaxSbTasks : SbReadForWriteDone(i)
    \/ \E i \in 1..MaxSbTasks : SbReadForWriteManyDone(i)
    \/ \E i \in 1..MaxSbTasks : SbSetItemDone(i)
    \/ \E i \in 1..MaxSbTasks : SbRemoveItemDone(i)
    \/ \E i \in 1..MaxSbTasks : SbClearDone(i)

(***************************************************************************)
(* OnyxKeyUtils: the set of collection keys OnyxUtils registers, and       *)
(* getCollectionKey and splitCollectionMemberKey over it.  A key is a      *)
(* sequence of characters; a call returns [ok |-> TRUE, ...] or throws,    *)
(* which is Thrown.                                                        *)
(*   ku : [onyxCollectionKeySet, key, collectionKey, op, out]              *)
(***************************************************************************)
MaxKeyLen == 4

KuChars == {"a", "_"}

StringsUpTo(n) == UNION {[1..len -> KuChars] : len \in 0..n}

\* The collection keys that may be registered; each ends with the
\* delimiter, and some are prefixes of others.
KuCollectionKeys ==
    {<<"_">>, <<"a", "_">>, <<"_", "_">>, <<"a", "a", "_">>, <<"a", "_", "a", "_">>}

\* An argument that was not passed
Undefined == <<"undefined">>

\* The second arguments of splitCollectionMemberKey
KuHints == KuCollectionKeys \cup {Undefined, <<>>, <<"a">>, <<"a", "a">>}

Thrown == [ok |-> FALSE]

\* key.lastIndexOf(ch, fromIndex), with the positions of JavaScript
lastIndexOf(key, ch, fromIndex) ==
    LET found == {i \in 0..(Len(key) - 1) : i <= fromIndex /\ key[i + 1] = ch}
    IN  IF found = {} THEN -1 ELSE CHOOSE i \in found : \A j \in found : j <= i

\* key.slice(0, end)
SliceTo(key, end) == SubSeq(key, 1, end)

\* key.slice(start)
SliceFrom(key, start) == SubSeq(key, start + 1, Len(key))

KeyUtilsIsCollectionKey(onyxCollectionKeySet, key) == key \in onyxCollectionKeySet

KeyUtilsIsCollectionMemberKey(collectionKey, key, collectionKeyLength) ==
    /\ Len(key) >= Len(collectionKey)
    /\ SliceTo(key, Len(collectionKey)) = collectionKey
    /\ Len(key) > collectionKeyLength

\* The loop of getCollectionKey from the underscore at lastUnderscoreIndex
RECURSIVE GetCollectionKeyFrom(_, _, _)
GetCollectionKeyFrom(onyxCollectionKeySet, key, lastUnderscoreIndex) ==
    IF lastUnderscoreIndex > 0
    THEN LET possibleKey == SliceTo(key, lastUnderscoreIndex + 1)
         IN  IF KeyUtilsIsCollectionKey(onyxCollectionKeySet, possibleKey)
             THEN [ok |-> TRUE, collectionKey |-> possibleKey]
             ELSE GetCollectionKeyFrom(onyxCollectionKeySet, key,
                                       lastIndexOf(key, "_", lastUnderscoreIndex - 1))
    ELSE Thrown

\* getCollectionKey that returns the key up to its last underscore
\* without looking it up
GetCollectionKeyUnchecked(onyxCollectionKeySet, key) ==
    LET lastUnderscoreIndex == lastIndexOf(key, "_", Len(key) - 1)
    IN  [ok |-> TRUE, collectionKey |-> SliceTo(key, lastUnderscoreIndex + 1)]

KeyUtilsGetCollectionKey(onyxCollectionKeySet, key) ==
    GetCollectionKeyFrom(onyxCollectionKeySet, key, lastIndexOf(key, "_", Len(key) - 1))

\* if (collectionKey): a string that was passed and is not empty
IsTruthyString(string) == string # Undefined /\ string # <<>>

\* splitCollectionMemberKey that looks the collection key up when the one
\* it was given does not fit the key
SplitFallingBack(onyxCollectionKeySet, key, collectionKey) ==
    LET fits == /\ IsTruthyString(collectionKey)
                /\ KeyUtilsIsCollectionMemberKey(collectionKey, key, Len(collectionKey))
        got == KeyUtilsGetCollectionKey(onyxCollectionKeySet, key)
    IN  IF fits
        THEN [ok |-> TRUE, collectionKey |-> collectionKey,
              id |-> SliceFrom(key, Len(collectionKey))]
        ELSE IF got.ok
        THEN [ok |-> TRUE, collectionKey |-> got.collectionKey,
              id |-> SliceFrom(key, Len(got.collectionKey))]
        ELSE Thrown

splitCollectionMemberKey(onyxCollectionKeySet, key, collectionKey) ==
    IF /\ IsTruthyString(collectionKey)
       /\ ~KeyUtilsIsCollectionMemberKey(collectionKey, key, Len(collectionKey))
    THEN Thrown
    ELSE IF ~IsTruthyString(collectionKey)
    THEN LET got == KeyUtilsGetCollectionKey(onyxCollectionKeySet, key)
         IN  IF got.ok
             THEN [ok |-> TRUE, collectionKey |-> got.collectionKey,
                   id |-> SliceFrom(key, Len(got.collectionKey))]
             ELSE Thrown
    ELSE [ok |-> TRUE, collectionKey |-> collectionKey,
          id |-> SliceFrom(key, Len(collectionKey))]

KuInit ==
    /\ CacheIdle /\ KbIdle /\ CmIdle /\ MgIdle /\ S1Idle /\ SbIdle /\ PxIdle /\ ObIdle
    /\ \E keys \in SUBSET KuCollectionKeys, key \in StringsUpTo(MaxKeyLen),
          collectionKey \in KuHints :
        ku = [onyxCollectionKeySet |-> keys, key |-> key,
              collectionKey |-> collectionKey, op |-> "new", out |-> Thrown]

\* OnyxKeyUtils.getCollectionKey(key)
KuGetCollectionKey ==
    /\ ku.op = "new"
    /\ OnlyKu
    /\ ku' = [ku EXCEPT !.op = "getCollectionKey",
                        !.out = KeyUtilsGetCollectionKey(ku.onyxCollectionKeySet, ku.key)]

\* OnyxKeyUtils.splitCollectionMemberKey(key, collectionKey)
KuSplitCollectionMemberKey ==
    /\ ku.op = "new"
    /\ OnlyKu
    /\ ku' = [ku EXCEPT !.op = "splitCollectionMemberKey",
                        !.out = splitCollectionMemberKey(ku.onyxCollectionKeySet,
                                                         ku.key, ku.collectionKey)]

KuNext ==
    \/ KuGetCollectionKey
    \/ KuSplitCollectionMemberKey

(***************************************************************************)
(* The proxy-based prototype's reactive system (ProxyBased/Onyx.ts).  The  *)
(* state is a tree of objects on a heap; an object is known by its id, the *)
(* root by RootId.  A WeakMap is keyed by the identity of an object: the   *)
(* target with id i and the proxy createProxy made for it are two keys.    *)
(***************************************************************************)
MaxPxObjs == 3
MaxPxOps == 4
RootId == 0
PxIds == 0..(MaxPxObjs - 1)
PxProps == <<"a", "b">>
PxPropSet == {PxProps[j] : j \in 1..Len(PxProps)}
PxPrims == {JPrim(1), JPrim(2)}

\* The object literals a caller assigns.
PxLiterals == {[p \in PxPropSet |-> Absent],
               [p \in PxPropSet |-> IF p = "b" THEN JPrim(1) ELSE Absent]}

Ref(id) == [k |-> "ref", o |-> id]
TargetOf(id) == [kind |-> "target", id |-> id]
ProxyOf(id) == [kind |-> "proxy", id |-> id]
NoSnap == [k |-> "nosnap", o |-> <<>>]

\* The value of the object with this id, to all depths.
RECURSIVE DeepValue(_, _)
DeepValue(heap, id) ==
    JObj([p \in {q \in PxPropSet : heap[id][q] # Absent} |->
            IF heap[id][p].k = "ref" THEN DeepValue(heap, heap[id][p].o)
            ELSE heap[id][p]])

\* The objects a caller reaches from the state through the get trap.
RECURSIVE PxReachable(_, _)
PxReachable(heap, id) ==
    {id} \cup UNION {PxReachable(heap, heap[id][p].o) :
                        p \in {q \in PxPropSet : heap[id][q].k = "ref"}}

\* snapshot(proxyObject) of the proxy of the object id.  The snapshot in
\* snapshotCache under the proxy is returned when there is one; otherwise
\* the properties are read through the proxy, whose get trap gives the
\* proxy of a nested object, the nested objects are snapshotted in turn,
\* and the result is stored under the proxy.
RECURSIVE snapshot(_, _, _)
RECURSIVE SnapshotProps(_, _, _, _, _)
SnapshotProps(snapshotCache, heap, id, props, snap) ==
    IF props = <<>> THEN [snap |-> snap, snapshotCache |-> snapshotCache]
    ELSE LET key == Head(props)
             value == heap[id][key]
         IN  IF value = Absent
             THEN SnapshotProps(snapshotCache, heap, id, Tail(props), snap)
             ELSE IF value.k = "ref"
             THEN LET r == snapshot(snapshotCache, heap, value.o)
                  IN  SnapshotProps(r.snapshotCache, heap, id, Tail(props),
                                    (key :> r.snap) @@ snap)
             ELSE SnapshotProps(snapshotCache, heap, id, Tail(props), (key :> value) @@ snap)

snapshot(snapshotCache, heap, id) ==
    IF snapshotCache[ProxyOf(id)].k # "nosnap"
    THEN [snap |-> snapshotCache[ProxyOf(id)], snapshotCache |-> snapshotCache]
    ELSE LET r == SnapshotProps(snapshotCache, heap, id, PxProps, <<>>)
         IN  [snap |-> JObj(r.snap),
              snapshotCache |-> [r.snapshotCache EXCEPT ![ProxyOf(id)] = JObj(r.snap)]]

\* The set trap of the proxy of the object target, for a value that is not
\* the previous one: the version of the target is incremented, the entry
\* of snapshotCache under the target is deleted and the listeners are
\* notified.
PxChanged(st, target) ==
    [st EXCEPT !.versionCache[target] = @ + 1,
               !.snapshotCache[TargetOf(target)] = NoSnap,
               !.notified = @ + 1]

PxTrapSet(st, target, prop, value) ==
    LET prevValue == st.heap[target][prop]
        st1 == [st EXCEPT !.heap[target][prop] = value]
    IN  IF prevValue # value THEN PxChanged(st1, target) ELSE st1

\* The deleteProperty trap: Reflect.deleteProperty of an ordinary object
\* gives true, whether it had the property or not.
PxTrapDelete(st, target, prop) ==
    PxChanged([st EXCEPT !.heap[target][prop] = Absent], target)

PxInit ==
    /\ CacheIdle /\ KbIdle /\ CmIdle /\ MgIdle /\ S1Idle /\ SbIdle /\ KuIdle /\ ObIdle
    /\ px = [heap |-> [i \in PxIds |-> [p \in PxPropSet |-> Absent]],
             next |-> 1,
             snapshotCache |-> [key \in {TargetOf(i) : i \in PxIds} \cup
                                        {ProxyOf(i) : i \in PxIds} |-> NoSnap],
             versionCache |-> [i \in PxIds |-> 0],
             notified |-> 0, n |-> 0, op |-> "none", out |-> NoSnap]

PxMayCall == px.n < MaxPxOps

PxCalled(st, op, out) ==
    [st EXCEPT !.n = @ + 1, !.op = op, !.out = out]

\* state...[prop] = value, for a primitive value
PxSetPrimitive(target, prop, value) ==
    /\ PxMayCall
    /\ target \in PxReachable(px.heap, RootId)
    /\ OnlyPx
    /\ px' = PxCalled(PxTrapSet(px, target, prop, value), "set", NoSnap)

\* state...[prop] = {...}, for an object literal: a new object
PxSetObject(target, prop, literal) ==
    /\ PxMayCall
    /\ target \in PxReachable(px.heap, RootId)
    /\ px.next < MaxPxObjs
    /\ OnlyPx
    /\ px' = PxCalled(PxTrapSet([px EXCEPT !.heap[px.next] = literal, !.next = @ + 1],
                                target, prop, Ref(px.next)),
                      "set", NoSnap)

\* delete state...[prop]
PxDeleteProperty(target, prop) ==
    /\ PxMayCall
    /\ target \in PxReachable(px.heap, RootId)
    /\ OnlyPx
    /\ px' = PxCalled(PxTrapDelete(px, target, prop), "delete", NoSnap)

\* snapshot(state)
PxSnapshot ==
    /\ PxMayCall
    /\ OnlyPx
    /\ LET r == snapshot(px.snapshotCache, px.heap, RootId)
       IN  px' = PxCalled([px EXCEPT !.snapshotCache = r.snapshotCache], "snapshot", r.snap)

PxNext ==
    \/ \E target \in PxIds, prop \in PxPropSet, value \in PxPrims :
            PxSetPrimitive(target, prop, value)
    \/ \E target \in PxIds, prop \in PxPropSet, literal \in PxLiterals :
            PxSetObject(target, prop, literal)
    \/ \E target \in PxIds, prop \in PxPropSet : PxDeleteProperty(target, prop)
    \/ PxSnapshot

(***************************************************************************)
(* The observer-based prototype: Onyx over the ObservableRegistry and the  *)
(* in-memory MemoryStorage.  The state ob is a record                      *)
(*   objs         the observables created so far, each [key, currentValue, *)
(*                listeners]; an observable is known by its index, and a   *)
(*                listener by the number of the connection it serves       *)
(*   observables  the registry's Map in insertion order, each [key, obs]   *)
(*   connections  per connection the observable its unsubscribe closure    *)
(*                refers to, 0 when there is none                          *)
(*   storage      the MemoryStorage, changed when a request is made        *)
(*   tasks        the continuations of awaits, run in the order queued     *)
(* and, for the callers' record, last (per callback the value it got       *)
(* last), seenClear (the callbacks connected before a clear() that has     *)
(* completed), ev (the last step) and n (the number of calls).  The keys   *)
(* of the calls are plain keys, no collection key.                         *)
(***************************************************************************)
MaxObCalls == 4
MaxObTasks == 2
MaxObSubs == 2
MaxObObjs == 3

ObKeys == {KeyS, KeyT}
ObValues == {NULL, ObjA}
ObCallbacks == 1..MaxObSubs

\* A continuation.  t is the request awaited, obs the observable whose
\* set() waits, cont the caller of set() ("set" or "clear"), keys the keys
\* clear() has still to go through.  marked and must are kept for the
\* callers' record: the callbacks connected when clear() was called, and
\* for a write the callbacks of its key that were connected before a
\* clear() that had completed when the write was made.
ObTask(t, obs, cont) ==
    [t |-> t, obs |-> obs, cont |-> cont, keys |-> <<>>, marked |-> {}, must |-> {}]

ObRegistered(st, key) ==
    \E j \in 1..Len(st.observables) : st.observables[j].key = key

\* ObservableRegistry.getObservable: the observable of the key, made and
\* registered when the registry has none (no collection observable is
\* registered for notifyCollectionObservables to find).
getObservable(st, key) ==
    IF ObRegistered(st, key)
    THEN [st |-> st,
          obs |-> (CHOOSE e \in SeqToSet(st.observables) : e.key = key).obs]
    ELSE [st |-> [st EXCEPT
                    !.objs = Append(@, [key |-> key, currentValue |-> NULL, listeners |-> {}]),
                    !.observables = Append(@, [key |-> key, obs |-> Len(st.objs) + 1])],
          obs |-> Len(st.objs) + 1]

\* Observable.set(value) up to its await: the value is kept and the
\* provider is asked to store or to remove it.
ObservableSet(st, obs, value, task) ==
    [st EXCEPT !.objs[obs].currentValue = value,
               !.storage[st.objs[obs].key] = IF value = NULL THEN UNDEF ELSE value,
               !.tasks = Append(@, [task EXCEPT !.t = IF value = NULL THEN "removeItem"
                                                      ELSE "setItem",
                                                !.obs = obs])]

\* notifyListeners of an observable: every listener gets currentValue.
ObNotifyListeners(st, obs) ==
    SetToSeq({<<cb, st.objs[obs].currentValue>> : cb \in st.objs[obs].listeners})

\* The loop of Onyx.clear() from the key at the head of keys up to its
\* next await, and registry.clear() when no key is left.
ObClearFrom(st, keys, marked) ==
    IF keys = <<>>
    THEN [st EXCEPT !.observables = <<>>,
                    !.seenClear = @ \cup {cb \in marked : st.connections[cb] # 0}]
    ELSE LET r == getObservable(st, Head(keys))
         IN  ObservableSet(r.st, r.obs, NULL,
                           [ObTask("removeItem", r.obs, "clear") EXCEPT
                               !.keys = Tail(keys), !.marked = marked])

ObConnected(st) == {cb \in ObCallbacks : st.connections[cb] # 0}

ObClearPending(st) ==
    \E j \in 1..Len(st.tasks) : st.tasks[j].t = "clear" \/ st.tasks[j].cont = "clear"

NoObEvent == [op |-> "none", key |-> NoKey, ds |-> <<>>, missed |-> {}]

RECURSIVE ObDelivered(_, _)
ObDelivered(last, ds) ==
    IF ds = <<>> THEN last
    ELSE ObDelivered([last EXCEPT ![Head(ds)[1]] = Head(ds)[2]], Tail(ds))

ObRecorded(st, ev, called) ==
    [st EXCEPT !.ev = ev, !.last = ObDelivered(@, ev.ds),
               !.n = IF called THEN @ + 1 ELSE @]

ObInit ==
    /\ CacheIdle /\ KbIdle /\ CmIdle /\ MgIdle /\ S1Idle /\ SbIdle /\ KuIdle /\ PxIdle
    /\ ob = [objs |-> <<>>, observables |-> <<>>,
             connections |-> [cb \in ObCallbacks |-> 0], nextConnectionId |-> 0,
             storage |-> [k \in ObKeys |-> UNDEF], tasks |-> <<>>,
             last |-> [cb \in ObCallbacks |-> NONE], seenClear |-> {},
             ev |-> NoObEvent, n |-> 0]

ObMayCall(added) ==
    /\ ob.n < MaxObCalls
    /\ Len(ob.tasks) + added <= MaxObTasks

\* Onyx.connect({key, callback})
ObConnect(key) ==
    /\ ObMayCall(0)
    /\ ob.nextConnectionId < MaxObSubs
    /\ ObRegistered(ob, key) \/ Len(ob.objs) < MaxObObjs
    /\ OnlyOb
    /\ LET r == getObservable(ob, key)
           cb == ob.nextConnectionId + 1
       IN  ob' = ObRecorded([r.st EXCEPT !.objs[r.obs].listeners = @ \cup {cb},
                                         !.connections[cb] = r.obs,
                                         !.nextConnectionId = @ + 1],
                            [NoObEvent EXCEPT !.op = "connect", !.key = key,
                                              !.ds = << <<cb, r.st.objs[r.obs].currentValue>> >>],
                            TRUE)

\* Onyx.disconnect(connection)
ObDisconnect(cb) ==
    /\ ObMayCall(0)
    /\ ob.connections[cb] # 0
    /\ OnlyOb
    /\ ob' = ObRecorded([ob EXCEPT !.objs[ob.connections[cb]].listeners = @ \ {cb},
                                   !.connections[cb] = 0],
                        [NoObEvent EXCEPT !.op = "disconnect"], TRUE)

\* Onyx.set(key, value), up to the await inside Observable.set
ObSet(key, value) ==
    /\ ObMayCall(1)
    /\ ObRegistered(ob, key) \/ Len(ob.objs) < MaxObObjs
    /\ OnlyOb
    /\ LET r == getObservable(ob, key)
           must == IF ObClearPending(ob) THEN {}
                   ELSE {cb \in ObConnected(ob) \cap ob.seenClear :
                            ob.objs[ob.connections[cb]].key = key}
       IN  ob' = ObRecorded(ObservableSet(r.st, r.obs, value,
                                          [ObTask("setItem", r.obs, "set") EXCEPT !.must = must]),
                            [NoObEvent EXCEPT !.op = "set", !.key = key], TRUE)

\* Onyx.clear(), up to the await of storage.clear()
ObClear ==
    /\ ObMayCall(1)
    /\ OnlyOb
    /\ ob' = ObRecorded([ob EXCEPT
                            !.storage = [k \in ObKeys |-> UNDEF],
                            !.tasks = Append(@, [ObTask("clear", 0, "clear") EXCEPT
                                                    !.marked = ObConnected(ob)])],
                        [NoObEvent EXCEPT !.op = "clear"], TRUE)

\* storage.clear() has resolved: clear() goes through registry.getKeys().
ObClearDone ==
    /\ ob.tasks # <<>>
    /\ Head(ob.tasks).t = "clear"
    /\ OnlyOb
    /\ LET task == Head(ob.tasks)
           st == [ob EXCEPT !.tasks = Tail(@)]
           keys == [j \in 1..Len(ob.observables) |-> ob.observables[j].key]
       IN  ob' = ObRecorded(ObClearFrom(st, keys, task.marked),
                            [NoObEvent EXCEPT !.op = "clearing"], FALSE)

\* The request of an Observable.set has resolved: the listeners of the
\* observable are notified, and a clear() that waited goes on.
ObSetDone ==
    /\ ob.tasks # <<>>
    /\ Head(ob.tasks).t \in {"setItem", "removeItem"}
    /\ OnlyOb
    /\ LET task == Head(ob.tasks)
           st == [ob EXCEPT !.tasks = Tail(@)]
           ds == ObNotifyListeners(st, task.obs)
           ev == [NoObEvent EXCEPT
                    !.op = IF task.cont = "clear" THEN "cleared" ELSE "written",
                    !.key = ob.objs[task.obs].key, !.ds = ds,
                    !.missed = {cb \in task.must \cap ObConnected(ob) :
                                  \A j \in 1..Len(ds) : ds[j][1] # cb}]
       IN  ob' = ObRecorded(IF task.cont = "clear"
                            THEN ObClearFrom(st, task.keys, task.marked) ELSE st,
                            ev, FALSE)

ObNext ==
    \/ \E key \in ObKeys : ObConnect(key)
    \/ \E cb \in ObCallbacks : ObDisconnect(cb)
    \/ \E key \in ObKeys, value \in ObValues : ObSet(key, value)
    \/ ObClear
    \/ ObClearDone
    \/ ObSetDone

(***************************************************************************)
(* The specifications.  Each drives one program; the state of the others   *)
(* stays idle.                                                             *)
(***************************************************************************)
SpecCache == CacheInit /\ [][CacheNext]_vars

SpecKB == KbInit /\ [][KbNext]_vars

SpecCM == CmInit /\ [][CmNext]_vars

SpecMerge == MgInit /\ [][MgNext]_vars

SpecSB1 == S1Init /\ [][S1Next]_vars

SpecSB == SbInit /\ [][SbNext]_vars

SpecKeys == KuInit /\ [][KuNext]_vars

SpecProxy == PxInit /\ [][PxNext]_vars

SpecObserver == ObInit /\ [][ObNext]_vars

\* The last n elements of a sequence, as a set.
LastN(seq, n) == {seq[i] : i \in Max(1, Len(seq) - n + 1)..Len(seq)}

C10_SizeWithinCapacity ==
    /\ caches.kb.max > 0 => CacheSize(caches.kb) <= caches.kb.max
    /\ caches.ts.max > 0 => TsSize(caches.ts) <= caches.ts.max
    /\ (caches.oc.limit > 0 /\ chist.last \in {"set", "cap"}) =>
           Cardinality(OcResident(caches.oc)) <= caches.oc.limit

\* C1: a set(key, v) called when v is value-equal to the payload a
\* subscriber of the key got last does not invoke that subscriber again
\* with v.
C1_NoRepeatedPayload == ~(kbg.ev.op = "setItem" /\ kbg.ev.same)

\* C3: an initial fetch of connect(key) that was pending when clear() was
\* called never hands the callback the value the key held before the clear.
C3_NoStaleReplay == ~kbg.ev.stale

\* C5: once every call has completed, and the calls were merges only, each
\* cached value is the initial value with the changes applied in call order.
C5_MergesApplyInOrder ==
    (kbg.mergeOnly /\ kb.tasks = <<>>) =>
        \A k \in AllKeys :
            CacheHas(kb.cache, k) => CacheGetValue(kb.cache, k) = kbg.exp[k]

\* C7: at no time are two reads of the durable store pending for one key.
C7_SingleFlight ==
    \A k \in AllKeys :
        Cardinality({j \in 1..Len(kb.tasks) :
                        kb.tasks[j].t = "getItem" /\ kb.tasks[j].key = k}) <= 1

\* C8: no step evicts from the cache a key whose durable write is pending.
C8_PendingWriteNotEvicted == ~kbg.ev.lost

\* C2: connect() does not invoke the caller's callback before it returns.
C2_ConnectDefersCallback == ~(s1g.ev.op = "connect" /\ s1g.ev.ds # <<>>)

\* C4: a get(key) called while a write to the key is in memory and not yet
\* durable resolves with the value of that write.
C4_GetSeesPendingWrite ==
    (sbg.ev.op = "got" /\ sbg.ev.want # NONE) => sbg.ev.got = sbg.ev.want

\* C6: a get(k) that directly follows set(k, v) issues no read to the
\* durable store and returns v.
C6_GetAfterSetFromMemory ==
    (sbg.ev.op = "get" /\ sbg.ev.afterSet) =>
        (~sbg.ev.read /\ sbg.ev.ret = sbg.ev.val)

\* C11: every aggregate delivered to the subscriber of a collection key maps
\* exactly the members that hold a value that is not null to that value.
C11_AggregateIsPresentMembers ==
    \A j \in 1..Len(s1g.ev.ds) : \A i \in 1..Len(s1.connections) :
        (/\ s1.connections[i].id = s1g.ev.ds[j][1]
         /\ isCollectionKey(s1.connections[i].key)) =>
            s1g.ev.ds[j][2] =
                Coll({<<k, s1.state[k]>> :
                        k \in {m \in AllKeys :
                                 /\ isCollectionMemberKey(m, s1.connections[i].key)
                                 /\ StoreGet(s1, m) # NULL}})

\* C12: a read of a collection aggregate returns the instance the read
\* before returned when, between the two, no member was added, removed or
\* changed in value.
C12_AggregateInstanceStable ==
    (chist.last = "getCollection" /\ chist.stable) => chist.hit

\* C13: a mergeCollection invokes no subscriber of a member key of the
\* collection that the call does not write.
C13_OtherMemberNotInvoked ==
    s1g.ev.op = "mergeCollection" =>
        \A j \in 1..Len(s1g.ev.ds) : \A i \in 1..Len(s1.connections) :
            ~(/\ s1.connections[i].id = s1g.ev.ds[j][1]
              /\ ~isCollectionKey(s1.connections[i].key)
              /\ s1.connections[i].key \notin s1g.ev.keys
              /\ \E k \in s1g.ev.keys :
                     getCollectionKey(k) = getCollectionKey(s1.connections[i].key))

\* C14: any two connect() calls with the same key and the same collection
\* mode, with no clear() between them, share one registration: the
\* subscription handler is called for the first of them only, for plain
\* keys and for collection keys alike.
C14_SameTargetSharesRegistration ==
    (cmg.ev.op = "connect" /\ cmg.ev.again) => ~cmg.ev.reg

\* C14, as the code has it: a connect() whose key and mode match a
\* connection made in the current session that still has a callback calls
\* no subscription handler, when the key is a plain key or the mode is the
\* collection mode.  (A collection key outside the collection mode gets a
\* connection of its own on every connect.)
C14_SharedWhileHeld ==
    (cmg.ev.op = "connect" /\ cmg.ev.held) => ~cmg.ev.reg

C14_Witness ==
    /\ cmg.ev.op = "connect"
    /\ cmg.ev.held
    /\ ~cmg.ev.reg
    /\ \E i \in 1..Len(cm.conns) : cm.conns[i].wait /\ Len(cm.conns[i].cbs) = 2

\* C15: the registration of a connection exists exactly while at least one
\* callback is attached: every connection entry has a callback and exactly
\* one subscription in the registry, and every subscription in the registry
\* belongs to exactly one connection entry that holds its ID.
C15_RegistrationWhileAttached ==
    /\ \A i \in 1..Len(cm.conns) :
          /\ cm.conns[i].cbs # <<>>
          /\ Cardinality({j \in 1..Len(cm.subs) :
                            cm.subs[j].id = cm.conns[i].subscriptionID}) = 1
    /\ \A j \in 1..Len(cm.subs) :
          \E i \in 1..Len(cm.conns) : cm.conns[i].subscriptionID = cm.subs[j].id

\* C16: after disconnect(handle) returns, the callback of the handle is
\* never invoked again: no step delivers to a callback that is attached to
\* no connection, be it a notification, an initial value or a replay.
C16_NoDeliveryAfterDisconnect == ~kbg.ev.gone

\* C17: disconnect(handle) removes only the callback of that handle, and
\* every callback that stays attached receives every later change: after a
\* disconnect the attached callbacks are those attached before, less the
\* handle's, and a write of a key delivers to every callback attached to a
\* connection of the key or of its collection.
C17_OthersStayAndReceive ==
    /\ cmg.ev.op = "disconnect" => cmg.ev.others
    /\ cmg.ev.op = "write" => cmg.ev.all

\* A write delivers to a callback of a connection after a callback that was
\* added to the same connection later was disconnected.
C17_Witness ==
    /\ cmg.ev.op = "write"
    /\ \E cb \in 1..Len(cmg.handles) : \E i \in 1..Len(cm.conns) :
          /\ cb \notin Attached(cm)
          /\ cm.conns[i].id = cmg.handles[cb]
          /\ \E c \in SeqToSet(cm.conns[i].cbs) :
                /\ c < cb
                /\ \E j \in 1..Len(cmg.ev.ds) : cmg.ev.ds[j][1] = c

\* C18: disconnect is idempotent: a disconnect(handle) whose callback is
\* not attached (a second disconnect, or a handle from before the
\* connection was removed) changes nothing, also when a connection for the
\* same key was created after the first disconnect.
C18_StaleDisconnectChangesNothing ==
    (cmg.ev.op = "disconnect" /\ cmg.ev.stale) => cmg.ev.same

\* A handle is disconnected again while a connection with the handle's
\* connection ID, created after the first disconnect, is live.
C18_Witness ==
    /\ cmg.ev.op = "disconnect"
    /\ cmg.ev.stale
    /\ \E i \in 1..Len(cm.conns) :
          /\ cm.conns[i].id = cmg.handles[cmg.ev.cb]
          /\ \A c \in SeqToSet(cm.conns[i].cbs) : c > cmg.ev.cb

\* C19: a callback added to a connection that already exists and has
\* delivered gets the connection's last known value on the next turn, with
\* no further write: connect queues a replay for it, and while the
\* connection lives the replay delivers the payload the connection's other
\* callbacks got last.
C19_ReplayLastKnownValue ==
    /\ (cmg.ev.op = "connect" /\ cmg.ev.made) => cmg.ev.queued
    /\ cmg.ev.op = "replay" => cmg.ev.known

\* A replay delivers to a callback the payload an earlier callback of the
\* same connection got from a write.
C19_Witness ==
    /\ cmg.ev.op = "replay"
    /\ \E i \in 1..Len(cm.conns) :
          /\ cm.conns[i].id = cmg.handles[cmg.ev.cb]
          /\ cmg.ev.cb \in SeqToSet(cm.conns[i].cbs)
          /\ \E c \in SeqToSet(cm.conns[i].cbs) :
                /\ c < cmg.ev.cb
                /\ cmg.got[c] # NONE
                /\ cmg.got[c] = cmg.got[cmg.ev.cb]

\* C20: clear() empties the in-memory state before any durable-store
\* operation it issues has completed: when the call of clear() returns, with
\* its provider requests still pending, the cache holds no key.
C20_ClearEmptiesMemoryAtOnce ==
    (kbg.ev.op = "clear" /\ kbg.ev.call) => CacheKeys(kb.cache) = {}

\* C21: when the durable write of a set has not settled (it may fail or
\* never settle), every subscriber of the key has already been notified of
\* the new value: when the call of set() returns, with its setItem pending,
\* the cache holds the value and every callback connected to the key got it
\* last.
C21_NotifiedBeforeDurableWrite ==
    (kbg.ev.op = "set" /\ kbg.ev.call) =>
        LET task == kb.tasks[Len(kb.tasks)]
        IN  /\ CacheGetValue(kb.cache, task.key) = task.val
            /\ \A i \in 1..Len(kb.conns) :
                  kb.conns[i].key = task.key =>
                      \A c \in SeqToSet(kb.conns[i].cbs) : kbg.last[c] = task.val

\* C22: after set(key, null) the cache keeps a tombstone for the key: the
\* key is reported as known, so that a get returns null without a durable
\* fetch.
C22_NullSetKeepsTombstone == chist.nullset => chist.known

\* C23: once a fetch of a key has returned null from the durable store, no
\* later get of the key issues another durable read until the key is
\* written or the store is cleared.
C23_EmptyKeyNotRefetched == ~kbg.ev.refetch

\* C24: a direct set whose target is a collection key is rejected and
\* changes nothing: no call of set() on a collection key changes the cache
\* or issues a durable write.
C24_DirectCollectionSetRejected == ~kbg.ev.direct

\* C25: after mergeCollection("r_", {r_1: .., r_2: ..}) has been called and
\* connect is then called on "r_" in collection mode, the first invocation
\* of the callback delivers exactly the merged collection.
C25_FirstPayloadIsMergedCollection == ~kbg.ev.wrong

\* C26: merge(key, partial) merges object values recursively: where the
\* existing value and partial both hold an object under a key, the nested
\* fields of the existing object that partial does not mention are
\* preserved in the merged value.
C26_MergeIsRecursive ==
    mg.op = "merge" =>
        \A key \in Keys(mg.source) \cap Keys(mg.target) :
            (Get(mg.target, key).k = "obj" /\ Get(mg.source, key).k = "obj") =>
                \A n \in Keys(Get(mg.target, key)) \ Keys(Get(mg.source, key)) :
                    Get(Get(mg.result, key), n) = Get(Get(mg.target, key), n)

\* C27: in fastMerge, under every combination of options, an array or a
\* primitive found in the source at a path is the result's value at that
\* path, and so is null unless shouldRemoveNestedNulls is set.  The paths
\* are the root, the keys of an object source, and the keys of its nested
\* objects, the marker key aside.
C27_LeavesReplace ==
    mg.op = "fastMerge" =>
        LET Leaf(v) == v.k \in {"arr", "prim", "bool"}
            Kept(v) == \/ Leaf(v)
                       \/ v.k = "null" /\ ~mg.options.shouldRemoveNestedNulls
        IN  /\ (Leaf(mg.source) \/ mg.source.k = "null") => mg.result = mg.source
            /\ mg.source.k = "obj" =>
                  \A key \in Keys(mg.source) \ {Mark} :
                      /\ Kept(Get(mg.source, key)) =>
                            Get(mg.result, key) = Get(mg.source, key)
                      /\ Get(mg.source, key).k = "obj" =>
                            \A n \in Keys(Get(mg.source, key)) \ {Mark} :
                                Kept(Get(Get(mg.source, key), n)) =>
                                    Get(Get(mg.result, key), n) = Get(Get(mg.source, key), n)

\* C28: with objectRemovalMode 'mark', the marker and a replaceNullPatch
\* are produced for exactly the paths where the target's value is null or
\* absent and the source introduces an object: for a source that carries no
\* marker itself, the patches are (path, source object) for those paths, and
\* the result carries the marker at those paths and at no other.
C28_MarksExactlyIntroducedObjects ==
    (mg.op = "fastMerge" /\ mg.options.objectRemovalMode = "mark") =>
        LET F == {"a", "b", "c", "d"}
            Paths == {<<>>} \cup {<<x>> : x \in F} \cup {<<x, y>> : x \in F, y \in F}
            At(v, p) == IF Len(p) = 0 THEN v
                        ELSE IF Len(p) = 1 THEN Get(v, p[1])
                        ELSE Get(Get(v, p[1]), p[2])
            Prefixes(p) == {SubSeq(p, 1, n) : n \in 0..(Len(p) - 1)}
            Intro(p) == /\ \A q \in Prefixes(p) : At(mg.source, q).k = "obj"
                        /\ At(mg.source, p).k = "obj"
                        /\ At(mg.target, p).k \in {"null", "undef"}
            E == {p \in Paths : Intro(p) /\ \A q \in Prefixes(p) : ~Intro(q)}
        IN  (\A p \in Paths : Get(At(mg.source, p), Mark) = JUndef) =>
                /\ mg.replaceNullPatches = {<<p, At(mg.source, p)>> : p \in E}
                /\ \A p \in Paths : Truthy(Get(At(mg.result, p), Mark)) <=> p \in E


\* C29: with objectRemovalMode 'replace', a source value that carries the
\* marker replaces the target's subtree at its path, the root included: the
\* result there has no marker, holds the source's plain fields as given,
\* and keeps no field that only the old subtree had.
C29_MarkedSourceReplacesSubtree ==
    (mg.op = "fastMerge" /\ mg.options.objectRemovalMode = "replace") =>
        LET F == {"a", "b", "c", "d"}
            Paths == {<<>>} \cup {<<x>> : x \in F} \cup {<<x, y>> : x \in F, y \in F}
            At(v, p) == IF Len(p) = 0 THEN v
                        ELSE IF Len(p) = 1 THEN Get(v, p[1])
                        ELSE Get(Get(v, p[1]), p[2])
        IN  \A p \in Paths :
                LET src == At(mg.source, p)
                    old == At(mg.target, p)
                    new == At(mg.result, p)
                IN  (src.k = "obj" /\ Truthy(Get(src, Mark))) =>
                        /\ Get(new, Mark) = JUndef
                        /\ \A n \in Keys(old) \ Keys(src) : Get(new, n) = JUndef
                        /\ \A n \in Keys(src) \ {Mark} :
                              Get(src, n).k \in {"prim", "arr"} => Get(new, n) = Get(src, n)


\* The value holds the marker key at some depth.
RECURSIVE HasMark(_)
HasMark(value) ==
    /\ value.k = "obj"
    /\ \/ Mark \in DOMAIN value.o
       \/ \E key \in DOMAIN value.o : HasMark(value.o[key])

\* C30: the key ONYX_INTERNALS__REPLACE_OBJECT_MARK is in no value written
\* to the durable store: after the provider has written a merge, the row
\* holds the marker at no depth.
C30_NoMarkerInDurableStore == mg.op = "mergeItem" => ~HasMark(mg.db)


\* The paths a change touches: those of its values that are not plain
\* objects, and those of its empty objects.
RECURSIVE TouchedPaths(_)
TouchedPaths(value) ==
    IF value.k # "obj" \/ DOMAIN value.o = {} THEN {<<>>}
    ELSE UNION {{<<key>> \o path : path \in TouchedPaths(value.o[key])} :
                   key \in DOMAIN value.o}

IsPrefix(p, q) == Len(p) <= Len(q) /\ SubSeq(q, 1, Len(p)) = p

DisjointPaths(A, B) ==
    \A p \in TouchedPaths(A), q \in TouchedPaths(B) : ~IsPrefix(p, q) /\ ~IsPrefix(q, p)

RegisteredPrefixes(onyxCollectionKeySet, key) ==
    {c \in onyxCollectionKeySet : Len(c) <= Len(key) /\ SubSeq(key, 1, Len(c)) = c}

\* C32: getCollectionKey returns the longest registered collection key
\* that is a prefix of the key it is given, whenever there is one.
C32_LongestRegisteredPrefix ==
    ku.op = "getCollectionKey" =>
        LET prefixes == RegisteredPrefixes(ku.onyxCollectionKeySet, ku.key)
        IN  prefixes # {} =>
                /\ ku.out.ok
                /\ ku.out.collectionKey \in prefixes
                /\ \A c \in prefixes : Len(c) <= Len(ku.out.collectionKey)


\* C33: getCollectionKey throws for every key that no registered
\* collection key is a prefix of, the empty key and a key without an
\* underscore included; what it returns is always a registered prefix.
C33_ThrowsWithoutRegisteredPrefix ==
    ku.op = "getCollectionKey" =>
        LET prefixes == RegisteredPrefixes(ku.onyxCollectionKeySet, ku.key)
        IN  /\ prefixes = {} => ku.out = Thrown
            /\ ku.out.ok => ku.out.collectionKey \in prefixes

\* getCollectionKey has thrown for a key with an underscore in it, while
\* collection keys are registered and none of them is a prefix of it.
C33_Witness ==
    /\ ku.op = "getCollectionKey"
    /\ ku.key = <<"a", "a", "_", "a">>
    /\ ku.onyxCollectionKeySet = {<<"a", "_">>, <<"_">>}
    /\ ku.out = Thrown


\* What splitCollectionMemberKey returns when it takes the collection key
\* from getCollectionKey
SplitByLookup ==
    LET got == KeyUtilsGetCollectionKey(ku.onyxCollectionKeySet, ku.key)
    IN  IF got.ok
        THEN [ok |-> TRUE, collectionKey |-> got.collectionKey,
              id |-> SubSeq(ku.key, Len(got.collectionKey) + 1, Len(ku.key))]
        ELSE Thrown

\* What it returns when it takes the collection key it was given
SplitByHint ==
    [ok |-> TRUE, collectionKey |-> ku.collectionKey,
     id |-> SubSeq(ku.key, Len(ku.collectionKey) + 1, Len(ku.key))]

HintGiven == ku.collectionKey # Undefined /\ ku.collectionKey # <<>>

HintIsPrefix ==
    /\ HintGiven
    /\ Len(ku.collectionKey) <= Len(ku.key)
    /\ SubSeq(ku.key, 1, Len(ku.collectionKey)) = ku.collectionKey

\* C34: splitCollectionMemberKey uses the collection key it is given only
\* if that is a prefix of the key, and otherwise splits the key at the
\* collection key getCollectionKey finds for it.
C34_HintElseLookup ==
    ku.op = "splitCollectionMemberKey" =>
        ku.out = IF HintIsPrefix THEN SplitByHint ELSE SplitByLookup

\* C34, as the code has it: a collection key that is given and is a proper
\* prefix of the key is used; one that is given and is not makes the call
\* throw; the lookup is made only when none, or the empty one, is given.
C34_HintOrThrowElseLookup ==
    ku.op = "splitCollectionMemberKey" =>
        ku.out = IF ~HintGiven THEN SplitByLookup
                 ELSE IF HintIsPrefix /\ Len(ku.key) > Len(ku.collectionKey)
                 THEN SplitByHint
                 ELSE Thrown

\* The call has thrown for a given collection key that is not a prefix of
\* the key, although a registered collection key is.
C34_Witness ==
    /\ ku.op = "splitCollectionMemberKey"
    /\ ku.key = <<"a", "_", "a">>
    /\ ku.collectionKey = <<"a", "a", "_">>
    /\ ku.onyxCollectionKeySet = {<<"a", "_">>, <<"a", "a", "_">>}
    /\ ku.out = Thrown


\* C35: in the store-based prototype a mergeCollection runs the store's
\* listeners once, when all its members are in the store: notifyListeners
\* is not run while it loads its members, and is run once by the step that
\* applies them, after which the store holds every member's new value.
C35_OneNotificationAfterAllMembers ==
    /\ sbg.ev.mc = "loading" => sbg.ev.notified = 0
    /\ sbg.ev.mc = "applied" =>
          /\ sbg.ev.notified = 1
          /\ \A j \in 1..Len(sbg.ev.updates) :
                getValue(sb, sbg.ev.updates[j][1]) = sbg.ev.updates[j][2]


\* C36: in the proxy-based prototype a snapshot of the state equals the
\* state as it is when the snapshot is taken, to all depths, whatever was
\* written or deleted before it.
C36_SnapshotEqualsState ==
    px.op = "snapshot" => px.out = DeepValue(px.heap, RootId)


\* The value a reader of the cache finds under the key, null when the
\* cache lacks it.
KbCachedValue(k) ==
    IF CacheGetValue(kb.cache, k) = UNDEF THEN NULL ELSE CacheGetValue(kb.cache, k)

\* C37: in the key-based prototype, when nothing is pending any more (every
\* write that was issued has settled in the provider, in whatever order)
\* every callback still connected to a key holds the key's cached value as
\* the value it got last.  The cache has its default capacity, so that it
\* has evicted nothing.
C37_SubscribersHoldCachedValue ==
    (kb.tasks = <<>> /\ kb.cache.max = DefaultMaxSize) =>
        \A i \in 1..Len(kb.conns) :
            ~isCollectionKey(kb.conns[i].key) =>
                \A cb \in SeqToSet(kb.conns[i].cbs) :
                    kbg.last[cb] = KbCachedValue(kb.conns[i].key)


\* C38: in the observer-based prototype, when a write settles that was
\* made after a clear() had completed, every callback of the written key
\* that connected before that clear() and is still connected is invoked.
C38_SubscriberSurvivesClear == ob.ev.missed = {}


\* C39: in the store-based prototype, when set() of the member "r_2" was
\* called while the write of set() of the member "r_1" was pending, and
\* both have completed, the durable store holds the values written for
\* both members.
C39_OverlappingMemberWritesBothDurable ==
    (sbg.scen = "overlap" /\ sb.tasks = <<>>) =>
        \A k \in {KeyR1, KeyR2} : SbStorageGetItem(sb.disk, k) \in SbValues \ {NULL}


\* C40: an eviction pass of the OnyxCache drops a resident key only when
\* the number of resident keys exceeds the capacity.
C40_EvictsOnlyOverCapacity ==
    [][(/\ caches.impl = "oc"
        /\ chist'.last = "evict" /\ chist'.n = chist.n + 1
        /\ OcResident(caches'.oc) # OcResident(caches.oc))
       => Cardinality(OcResident(caches.oc)) > caches.oc.limit]_vars

====
